---- MODULE Spec2Model ----
(***************************************************************************)
(* A model of pool-guy's event pipeline: the EventSub websocket session    *)
(* (twitchws.py TwitchWebsocket), its duplicate suppression, the alert     *)
(* priority queue and its persisted snapshot (AlertPriorityQueue,          *)
(* NotificationHandler), the OAuth token handler (oauth.py TokenHandler),  *)
(* the authenticated request helper (http.py RequestHandler) and the       *)
(* subscription reconciliation (twitchapi.py unsubAllEvents).              *)
(*                                                                         *)
(* The components are independent state machines over disjoint groups of   *)
(* variables; each has its own specification (SpecDedup, SpecQueue, ...)   *)
(* that leaves the other groups in their constructed state.                *)
(***************************************************************************)
EXTENDS Integers, Sequences, FiniteSets, TLC

None == "None"

\* the None of self._session_id, among session ids that are positive numbers
NoSession == 0

Range(s) == {s[i] : i \in 1..Len(s)}

Max(S) == CHOOSE x \in S : \A y \in S : y <= x

(***************************************************************************)
(* Bounds of the model.                                                    *)
(***************************************************************************)
\* distinct message ids the socket delivers
MaxIds == 17
\* ids the platform may deliver again (ids 1..NumRepeatIds)
NumRepeatIds == 1
\* re-deliveries in one run
MaxRepeats == 2
\* notification_handler tasks created and not yet run
MaxPending == 1
\* dials of the websocket URL in one run
MaxDials == 23
\* message ids of the alerts put into the queue (1..MaxAlerts)
MaxAlerts == 3
\* message ids of the notifications of the worker's specifications
MaxQueued == 2
\* message ids of the notifications of the archive's specification
MaxArchived == 2
\* notifications dispatched in the archive's specification
MaxIngests == 2
\* stops of the process followed by a restart
MaxRestarts == 1
\* concurrent calls of RequestHandler._request
NumRequests == 2
\* session.request calls within one call of _request
MaxIssues == 3
\* refreshes the _refresher task starts
MaxRefreshes == 2
\* calls of TokenHandler.stop
MaxStops == 2
\* session ids the server hands out (1..NumSessions)
NumSessions == 2
\* runs of handle_session_welcome against one state of the server
MaxRuns == 2
\* subscriptions the server revokes
MaxChanges == 1
\* the largest id the server gives a subscription
MaxSubId == 8
\* authorization flows started (each generates a new state)
MaxFlows == 2
\* authorization codes a callback may carry (1..NumCodes)
NumCodes == 2
\* callbacks the web server receives
MaxCallbacks == 3

\* frames received by _socket_loop in a behaviour, and dials of it
MaxFrames == 2

MaxSessionDials == 2

\* alerts put into the queue, and remove_by_id calls, where both are bounded
MaxPuts == 2

MaxRemoves == 2

(***************************************************************************)
(* Program constants.                                                      *)
(***************************************************************************)
\* TwitchWebsocket.__init__: self._seen_messages = MaxSizeDict(15)
max_size == 15
\* TwitchWebsocket.__init__: self.max_reconnect = max_reconnect or 20
default_max_reconnect == 20

\* the _refresher refreshes a token that expires within this many seconds
refresh_margin == 3600

VARIABLES
    \* ---- TwitchWebsocket: frames and duplicate suppression
    seen_messages,    \* keys of self._seen_messages, oldest first
    nh_tasks,         \* created notification_handler tasks, in creation order
    process_started,  \* message id -> number of process() tasks started
    socket,           \* number of the socket self._socket refers to (0: None)
    connected,        \* self._connected
    running,          \* self._running
    session_id,       \* self._session_id
    max_reconnect,    \* self.max_reconnect
    open_sockets,     \* the sockets that were self._socket and are neither closed nor broken
    hm_tasks,         \* the handle_message tasks _socket_loop created, oldest first
    close_log,        \* history: the steps close() has taken, in order
    stale_recv,       \* the replaced socket the reader's recv() still waits on, or 0
    last_handover,    \* history: the last switch to a reconnect socket
    run_pc,           \* where run() stands: "new", "loop", "dial", "recv", "done"
    dials,            \* history: calls of websockets.connect(WSURL)
    fails,            \* history: consecutive failed dials
    frames,           \* history: message ids passed to handle_message, in order
    accepted,         \* history: accepted[i] iff frames[i] was not dropped
    \* ---- AlertFactory
    alert_classes,    \* AlertFactory._alert_classes: channel -> class attributes
    \* ---- AlertPriorityQueue, NotificationHandler._loop, storage
    queue,            \* the heap of asyncio.PriorityQueue (self._queue), a heapq list
    id_map,           \* self._id_map in insertion order: [alert_id, item]
    next_uuid,        \* the next fresh uuid4
    storage_queue,    \* the snapshot stored under "alerts": a list of alert dicts
    loop_pc,          \* NotificationHandler._loop: "new", "idle" (at the head of the loop),
                      \* "sleeping", "waiting" (in get()), "processing", "stopped"
    cur_alert,        \* the alert whose process() the loop awaits
    got,              \* history: alerts returned by get(), in order
    early,            \* history: message ids put before any get()
    put_ids,          \* history: message ids put into the queue
    processed,        \* history: message ids whose process() has returned
    restarts,         \* history: number of restarts of the process
    paused,           \* NotificationHandler._paused
    observed_paused,  \* history: the loop found _paused set and no resume() came since
    raised,           \* history: message ids whose process() raised in the loop
    held,             \* history: message ids put while the loop held the dispatch
    handler_shutdown, \* history: NotificationHandler.shutdown() was called
    archive,          \* the archive tables of the storage: table -> rows in insertion order
    last_call,        \* history: what the last NotificationHandler.__call__ did
    last_remove,      \* history: the last remove_by_id call: its number, id and result
    overshoot,        \* history: get() calls that returned an alert since the last pause()
    writes,           \* the save_queue calls that have not finished: who saves what
    \* ---- TokenHandler, RequestHandler._request
    token,            \* self._token: 0 for None, else the number of the token
    refresh_event,    \* self._refresh_event is set
    token_running,    \* TokenHandler._running
    task_pc,          \* where each task stands: the _refresher and the _request calls
    issues,           \* history: session.request calls of each _request call
    nref,             \* history: calls of _refresh by each task
    gt_overlap,       \* history: a get_token() returned while a _refresh was in progress
    ran_since_wake,   \* tasks that ran since the event woke tasks that have not run yet
    refresh_task,     \* self._refresh_task: "none" for None, else "task"
    stop_calls,       \* history: calls of TokenHandler.stop
    stop_error,       \* history: the exception a stop() call ended with, or "none"
    last_tick,        \* history: the last validation answered 200, and _refresh calls before it
    slept,            \* history: the _refresher has slept since it last called _refresh
    saved_token,      \* the token storage holds under "twitch": 0 for none
    \* ---- handle_session_welcome, TwitchApi.unsubAllEvents, the server's subscriptions
    server_subs,      \* the subscriptions the server holds: [id, type, status, session]
    next_sub_id,      \* the id the server gives the next subscription
    recon_pc,         \* handle_session_welcome: "idle", "list", "delete", "create", "done", "failed"
    recon_out,        \* unsubAllEvents: out, the listed subscriptions bound to the session
    recon_del,        \* unsubAllEvents: ids of the deleteEventSub tasks not yet finished
    recon_todo,       \* the channels still to subscribe to, in order
    creates,          \* history: createEventSub calls of each run since the last change
    finals,           \* history: the server's subscriptions after each such run
    recon_failed,     \* history: a request of such a run failed
    changes,          \* history: subscriptions the server has revoked
    recon_listed,     \* history: r['data'] of the run's getEventSubs
    recon_sid,        \* the session id the session_welcome being handled carried
    \* ---- TokenHandler: the authorization code flow
    auth_state,       \* self._state: 0 for None, else the number of the state
    auth_code,        \* self._auth_code: 0 for None, else the number of the code
    auth_future,      \* self._auth_future: "none", "pending" or "done"
    flow_pc,          \* _get_new_token: "idle", "waiting", "posted"
    exchanged,        \* history: codes posted to the token endpoint
    good_codes,       \* history: codes of callbacks carrying the current state and no error
    cb_count,         \* history: callbacks handled
    last_cb           \* history: the last callback and its response

sessionVars == <<hm_tasks, close_log, stale_recv>>

dedupVars == <<seen_messages, nh_tasks, frames, accepted, sessionVars>>

socketVars == <<open_sockets, last_handover>>

runVars == <<socket, connected, running, session_id, max_reconnect, run_pc, dials, fails,
             socketVars>>

wsVars == <<dedupVars, runVars, process_started>>

workerVars == <<paused, observed_paused, raised, held, handler_shutdown>>

opVars == <<last_remove, overshoot, writes>>

archiveVars == <<archive, last_call, opVars>>

queueVars == <<queue, id_map, next_uuid, storage_queue, loop_pc, cur_alert,
               got, early, put_ids, processed, restarts, workerVars, archiveVars>>

validatorVars == <<refresh_task, stop_calls, stop_error, last_tick, slept, saved_token>>

tokenVars == <<token, refresh_event, token_running, task_pc, issues, nref, gt_overlap,
               ran_since_wake, validatorVars>>

reconVars == <<server_subs, next_sub_id, recon_pc, recon_out, recon_del, recon_todo,
               creates, finals, recon_failed, changes, recon_listed, recon_sid>>

oauthVars == <<auth_state, auth_code, auth_future, flow_pc, exchanged, good_codes,
               cb_count, last_cb>>

authVars == <<tokenVars, reconVars, oauthVars>>

vars == <<wsVars, alert_classes, queueVars, authVars>>

(***************************************************************************)
(* Frames.  A message id determines its frame: ids are unique per message  *)
(* on the platform, so a re-delivered id carries the same type.            *)
(***************************************************************************)
Ids == 1..MaxIds

MsgType(id) ==
    IF id = 8 THEN "session_reconnect"
    ELSE IF id % 5 = 0 THEN "session_keepalive"
    ELSE "notification"

\* payload.subscription.type of a notification frame
Channel(id) == IF id % 2 = 0 THEN "channel.follow" ELSE "channel.cheer"

(***************************************************************************)
(* MaxSizeDict.__setitem__ on the ordered keys of the dict.                *)
(***************************************************************************)
RemoveKey(d, key) == SelectSeq(d, LAMBDA k : k # key)

MaxSizeDict_setitem_early(d, key) ==
    IF key \in Range(d)
    THEN Append(RemoveKey(d, key), key)
    ELSE IF Len(d) + 1 >= max_size
         THEN Append(Tail(d), key)
         ELSE Append(d, key)

MaxSizeDict_setitem_no_evict(d, key) ==
    IF key \in Range(d)
    THEN Append(RemoveKey(d, key), key)
    ELSE Append(d, key)

MaxSizeDict_setitem(d, key) ==
    IF key \in Range(d)
    THEN Append(RemoveKey(d, key), key)
    ELSE IF Len(d) >= max_size
         THEN Append(Tail(d), key)
         ELSE Append(d, key)

(***************************************************************************)
(* AlertFactory.create_alert: the class registered for the channel, else   *)
(* GenericAlert (queue_skip = True, priority inherited from Alert).        *)
(***************************************************************************)
GenericAlert_priority_4 == [priority |-> 4, queue_skip |-> TRUE, store |-> TRUE]

\* priority is inherited from Alert; store is the method GenericAlert defines
GenericAlert == [priority |-> 3, queue_skip |-> TRUE, store |-> TRUE]

AlertClass(channel) ==
    IF channel \in DOMAIN alert_classes THEN alert_classes[channel] ELSE GenericAlert

create_alert(message_id, channel, timestamp) ==
    [message_id |-> message_id, channel |-> channel, timestamp |-> timestamp,
     priority |-> AlertClass(channel).priority]

(***************************************************************************)
(* Alert comparison and the heap of asyncio.PriorityQueue.  An item is the *)
(* tuple (alert.priority, alert); as its first component is the alert's    *)
(* own priority, the alert record stands for the item.                     *)
(***************************************************************************)
Alert_eq(a, b) ==
    /\ a.priority = b.priority
    /\ a.timestamp = b.timestamp
    /\ a.message_id = b.message_id

Alert_lt_priority_only(a, b) == a.priority < b.priority

Alert_lt(a, b) ==
    IF a.priority # b.priority
    THEN a.priority < b.priority
    ELSE a.timestamp < b.timestamp

\* (p1, a1) < (p2, a2) on Python tuples: the first unequal component decides
Item_lt(x, y) ==
    IF x.priority # y.priority THEN x.priority < y.priority
    ELSE IF Alert_eq(x, y) THEN FALSE
    ELSE Alert_lt(x, y)

Item_eq(x, y) == x.priority = y.priority /\ Alert_eq(x, y)

\* heapq._siftdown(heap, startpos, pos), positions counted from 1
RECURSIVE siftdown(_, _, _, _)
siftdown(heap, startpos, pos, newitem) ==
    IF pos > startpos /\ Item_lt(newitem, heap[pos \div 2])
    THEN siftdown([heap EXCEPT ![pos] = heap[pos \div 2]], startpos, pos \div 2, newitem)
    ELSE [heap EXCEPT ![pos] = newitem]

\* the loop of heapq._siftup: move the smaller child up until a leaf is hit
RECURSIVE siftup_loop(_, _, _)
siftup_loop(heap, pos, newitem) ==
    LET childpos == 2 * pos
        rightpos == childpos + 1
        c == IF rightpos <= Len(heap) /\ ~Item_lt(heap[childpos], heap[rightpos])
             THEN rightpos ELSE childpos
    IN  IF childpos <= Len(heap)
        THEN siftup_loop([heap EXCEPT ![pos] = heap[c]], c, newitem)
        ELSE siftdown([heap EXCEPT ![pos] = newitem], 1, pos, newitem)

heappush(heap, item) == siftdown(Append(heap, item), 1, Len(heap) + 1, item)

\* heapq.heappop: <<returned item, heap left>>
heappop(heap) ==
    LET lastelt == heap[Len(heap)]
        rest == SubSeq(heap, 1, Len(heap) - 1)
    IN  IF rest # <<>>
        THEN <<heap[1], siftup_loop([rest EXCEPT ![1] = lastelt], 1, lastelt)>>
        ELSE <<lastelt, <<>>>>

(***************************************************************************)
(* AlertPriorityQueue: snapshot, restore, put, get.                        *)
(***************************************************************************)
to_dict_no_timestamp(alert) ==
    [message_id |-> alert.message_id, channel |-> alert.channel,
     timestamp |-> 0, priority |-> alert.priority]

to_dict(alert) ==
    [message_id |-> alert.message_id, channel |-> alert.channel,
     timestamp |-> alert.timestamp, priority |-> alert.priority]

\* _save_state: the dicts of the id map's alerts, in the map's order
SavedState(map) == [i \in 1..Len(map) |-> to_dict(map[i].item)]

\* _load_state's loop over the saved items: <<heap, id map, next uuid>>
RECURSIVE restore(_, _, _, _)
restore(saved, heap, map, uuid) ==
    IF saved = <<>> THEN <<heap, map, uuid>>
    ELSE LET d == Head(saved)
             alert == create_alert(d.message_id, d.channel, d.timestamp)
         IN  restore(Tail(saved), heappush(heap, alert),
                     Append(map, [alert_id |-> uuid, item |-> alert]), uuid + 1)

\* _load_state on a queue holding (heap, map): nothing saved leaves it as it is
load_state(saved, heap, map, uuid) ==
    IF saved = <<>> THEN <<heap, map, uuid>>
    ELSE restore(saved, <<>>, <<>>, uuid)

\* get(): the position in the id map of the first value equal to the item, or 0
FoundId(map, item) ==
    LET hits == {i \in 1..Len(map) : Item_eq(map[i].item, item)}
    IN  IF hits = {} THEN 0 ELSE CHOOSE i \in hits : \A j \in hits : i <= j

DelAt(map, i) ==
    IF i = 0 THEN map ELSE SubSeq(map, 1, i - 1) \o SubSeq(map, i + 1, Len(map))

\* the message ids get() returns when called until the heap is empty
RECURSIVE Drain(_)
Drain(heap) ==
    IF heap = <<>> THEN <<>>
    ELSE <<heappop(heap)[1].message_id>> \o Drain(heappop(heap)[2])

\* the items super().get() returns when called until the heap is empty
RECURSIVE PopAll(_)
PopAll(heap) ==
    IF heap = <<>> THEN <<>>
    ELSE <<heappop(heap)[1]>> \o PopAll(heappop(heap)[2])

\* super().put(item) for every item of a list, in its order
RECURSIVE PushAll(_, _)
PushAll(items, heap) ==
    IF items = <<>> THEN heap
    ELSE PushAll(Tail(items), heappush(heap, Head(items)))

\* the position in the id map of the key alert_id, or 0
IdIndex(map, alert_id) ==
    IF \E i \in 1..Len(map) : map[i].alert_id = alert_id
    THEN CHOOSE i \in 1..Len(map) : map[i].alert_id = alert_id
    ELSE 0

\* the items remove_by_id puts back: temp_items, every item for which
\* item != item_to_remove
Kept(items, item) == SelectSeq(items, LAMBDA x : ~Item_eq(x, item))

\* remove_by_id: <<returned value, heap, id map>>
remove_by_id(heap, map, alert_id) ==
    LET i == IdIndex(map, alert_id)
    IN  IF i = 0 THEN <<FALSE, heap, map>>
        ELSE <<TRUE, PushAll(Kept(PopAll(heap), map[i].item), <<>>), DelAt(map, i)>>

(***************************************************************************)
(* The constructed state of each component.                                *)
(***************************************************************************)
AlertIds == 1..MaxAlerts

Timestamps == {5, 10}

\* the classes an embedder registers with add_alert_class
\* (store is Alert's default, False: nothing is archived)
FollowAlert == [priority |-> 1, queue_skip |-> FALSE, store |-> FALSE]

CheerAlert == [priority |-> 2, queue_skip |-> FALSE, store |-> FALSE]

\* a class that is queued and has GenericAlert's store
StoredAlert == [priority |-> 1, queue_skip |-> FALSE, store |-> TRUE]

\* channel.follow registered with a class that archives, channel.cheer not
\* registered
ArchiveRegistry == [c \in {"channel.follow"} |-> StoredAlert]

Registry == [c \in {"channel.follow", "channel.cheer"} |->
                IF c = "channel.follow" THEN FollowAlert ELSE CheerAlert]

NoRegistry == [c \in {} |-> GenericAlert]

NoHandover == [old |-> 0, new |-> 0, seen |-> <<>>, at |-> 0]

InitWs ==
    /\ seen_messages = <<>>
    /\ nh_tasks = <<>>
    /\ process_started = [id \in Ids |-> 0]
    /\ socket = 0
    /\ connected = FALSE
    /\ running = FALSE
    /\ session_id = NoSession
    /\ run_pc = "new"
    /\ dials = 0
    /\ fails = 0
    /\ frames = <<>>
    /\ accepted = <<>>
    /\ open_sockets = {}
    /\ last_handover = NoHandover
    /\ hm_tasks = <<>>
    /\ close_log = <<>>
    /\ stale_recv = 0

Refresher == 0

Requests == 1..NumRequests

Tasks == {Refresher} \cup Requests

NoTick == [ticked |-> FALSE, remaining |-> 0, nref |-> 0]

InitToken ==
    /\ refresh_task = "none"
    /\ stop_calls = 0
    /\ stop_error = "none"
    /\ last_tick = NoTick
    /\ slept = FALSE
    /\ saved_token = 0
    /\ token = 0
    /\ refresh_event = FALSE
    /\ token_running = FALSE
    /\ task_pc = [t \in Tasks |-> IF t = Refresher THEN "new" ELSE "idle"]
    /\ issues = [t \in Requests |-> 0]
    /\ nref = [t \in Tasks |-> 0]
    /\ gt_overlap = FALSE
    /\ ran_since_wake = {}

\* self.channels: the topics to subscribe to (no broadcaster lists)
Channels == <<"channel.follow", "channel.cheer">>

Sub(id, type, status, session) ==
    [id |-> id, type |-> type, status |-> status, session |-> session]

\* subscriptions left on the server by an earlier session
StaleSubs == {Sub(1, "channel.follow", "enabled", -1),
              Sub(2, "channel.cheer", "websocket_disconnected", -1)}

InitRecon ==
    /\ next_sub_id = 3
    /\ recon_pc = "idle"
    /\ recon_out = {}
    /\ recon_del = {}
    /\ recon_todo = <<>>
    /\ creates = <<>>
    /\ finals = <<>>
    /\ recon_failed = FALSE
    /\ changes = 0
    /\ recon_listed = {}
    /\ recon_sid = NoSession

NoCallback == [state |-> 0, code |-> 0, error |-> FALSE, matched |-> FALSE, status |-> 0]

InitOAuth ==
    /\ auth_state = 0
    /\ auth_code = 0
    /\ auth_future = "none"
    /\ flow_pc = "idle"
    /\ exchanged = {}
    /\ good_codes = {}
    /\ cb_count = 0
    /\ last_cb = NoCallback

InitAuth == InitToken /\ InitRecon /\ InitOAuth

InitNoSubs == server_subs = {}

NoTables == [c \in {} |-> <<>>]

NoRemove == [n |-> 0, alert_id |-> 0, returned |-> FALSE]

NoCall == [message_id |-> 0, channel |-> None, registered |-> FALSE, priority |-> 0,
           queue_skip |-> FALSE, store_called |-> FALSE, store_raised |-> FALSE,
           dispatched |-> FALSE, row |-> [message_id |-> 0, timestamp |-> 0, data |-> 0]]

InitQueue ==
    /\ queue = <<>>
    /\ id_map = <<>>
    /\ next_uuid = 1
    /\ storage_queue = <<>>
    /\ loop_pc = "new"
    /\ cur_alert = None
    /\ got = <<>>
    /\ early = {}
    /\ put_ids = {}
    /\ processed = {}
    /\ restarts = 0
    /\ paused = FALSE
    /\ observed_paused = FALSE
    /\ raised = {}
    /\ held = {}
    /\ handler_shutdown = FALSE
    /\ archive = NoTables
    /\ last_call = NoCall
    /\ last_remove = NoRemove
    /\ overshoot = 0
    /\ writes = {}

(***************************************************************************)
(* NotificationHandler and AlertPriorityQueue.                             *)
(***************************************************************************)
queueCore == <<queue, id_map, next_uuid, storage_queue, loop_pc, cur_alert,
               got, early, put_ids, processed, restarts>>

\* NotificationHandler.start(paused): set the flag when asked to, restore the
\* queue, create the _loop task
StartHandlerWith(start_paused) ==
    /\ loop_pc = "new"
    /\ paused' = (paused \/ start_paused)
    /\ LET r == load_state(storage_queue, queue, id_map, next_uuid)
       IN  /\ queue' = r[1]
           /\ id_map' = r[2]
           /\ next_uuid' = r[3]
    /\ loop_pc' = "idle"
    /\ UNCHANGED <<storage_queue, cur_alert, got, early, put_ids, processed, restarts>>
    /\ UNCHANGED <<observed_paused, raised, handler_shutdown, held, archiveVars>>

StartHandler == StartHandlerWith(FALSE)

Start ==
    /\ StartHandler
    /\ UNCHANGED <<wsVars, alert_classes>>
    /\ UNCHANGED authVars

\* start(paused=True)
StartPaused ==
    /\ StartHandlerWith(TRUE)
    /\ UNCHANGED <<wsVars, alert_classes>>
    /\ UNCHANGED authVars

\* AlertPriorityQueue.put: push, record under a fresh id, save the snapshot
QueuePut(alert) ==
    /\ queue' = heappush(queue, alert)
    /\ id_map' = Append(id_map, [alert_id |-> next_uuid, item |-> alert])
    /\ next_uuid' = next_uuid + 1
    /\ storage_queue' = SavedState(id_map')
    /\ put_ids' = put_ids \cup {alert.message_id}
    /\ early' = IF got = <<>> THEN early \cup {alert.message_id} ELSE early
    /\ held' = IF observed_paused THEN held \cup {alert.message_id} ELSE held
    /\ UNCHANGED <<loop_pc, cur_alert, got, processed, restarts>>
    /\ UNCHANGED <<paused, observed_paused, raised, handler_shutdown>>

\* SQLiteStorage._clean_str: non-word characters become _
clean_str(text) ==
    CASE text = "channel.follow" -> "channel_follow"
      [] text = "channel.cheer" -> "channel_cheer"
      [] OTHER -> text

\* SQLiteStorage.channel_to_table: the same substitution
channel_to_table(channel) == clean_str(channel)

\* INSERT without ON CONFLICT
Upsert_plain_insert(rows, row) == Append(rows, row)

\* INSERT ... ON CONFLICT(message_id) DO UPDATE SET every column
Upsert(rows, row) ==
    IF \E i \in 1..Len(rows) : rows[i].message_id = row.message_id
    THEN [i \in 1..Len(rows) |->
            IF rows[i].message_id = row.message_id THEN row ELSE rows[i]]
    ELSE Append(rows, row)

\* SQLiteStorage.insert: a missing table is created (PRIMARY KEY message_id)
\* and the insert tried again
Insert(tables, table, row) ==
    LET name == clean_str(table)
    IN  IF name \in DOMAIN tables
        THEN [tables EXCEPT ![name] = Upsert(@, row)]
        ELSE [t \in DOMAIN tables \cup {name} |->
                IF t = name THEN Upsert(<<>>, row) ELSE tables[t]]

\* GenericAlert.store: the row of the alert (its data, timestamp, message_id)
StoreRow(message_id, timestamp, data) ==
    [message_id |-> message_id, timestamp |-> timestamp, data |-> data]

\* NotificationHandler.__call__ for one notification, with a storage set and a
\* message id without "test_": the class's store, when it has one, is awaited
\* first; it may raise (archived = FALSE), which ends the call
NotificationHandler_call(message_id, channel, timestamp, data, archived) ==
    LET alert == create_alert(message_id, channel, timestamp)
        cls == AlertClass(channel)
        call == [message_id |-> message_id, channel |-> channel,
                 row |-> StoreRow(message_id, timestamp, data),
                 registered |-> (channel \in DOMAIN alert_classes),
                 priority |-> alert.priority, queue_skip |-> cls.queue_skip,
                 store_called |-> cls.store,
                 store_raised |-> (cls.store /\ ~archived),
                 dispatched |-> ~(cls.store /\ ~archived)]
    IN  /\ last_call' = call
        /\ UNCHANGED opVars
        /\ IF cls.store /\ ~archived
           THEN UNCHANGED <<queueCore, workerVars, archive, process_started>>
           ELSE /\ archive' = IF cls.store
                              THEN Insert(archive, channel_to_table(channel),
                                          StoreRow(message_id, timestamp, data))
                              ELSE archive
                /\ IF ~cls.queue_skip
                   THEN QueuePut(alert) /\ UNCHANGED process_started
                   ELSE /\ process_started' =
                              [process_started EXCEPT ![message_id] = @ + 1]
                        /\ UNCHANGED <<queueCore, workerVars>>

\* the payload (event) of the notifications of the queue's specifications
NoData == 0

\* a notification handed to the handler of a started NotificationHandler
Notify(message_id, channel, timestamp) ==
    /\ loop_pc # "new"
    /\ message_id \notin put_ids
    /\ channel \in DOMAIN alert_classes
    /\ \E archived \in BOOLEAN :
          NotificationHandler_call(message_id, channel, timestamp, NoData, archived)
    /\ UNCHANGED <<dedupVars, runVars, alert_classes>>
    /\ UNCHANGED authVars

\* the loop may call get(): at the head of the loop with the flag unset, or
\* already waiting in get()
MayGet_ignores_pause == loop_pc \in {"idle", "waiting"}

MayGet == (loop_pc = "idle" /\ ~paused) \/ loop_pc = "waiting"

\* NotificationHandler._loop: get() returns the smallest item, drops it from
\* the id map and saves the snapshot; then process() is awaited
LoopGet ==
    /\ MayGet
    /\ queue # <<>>
    /\ LET popped == heappop(queue)
           alert == popped[1]
       IN  /\ queue' = popped[2]
           /\ id_map' = DelAt(id_map, FoundId(id_map, alert))
           /\ storage_queue' = SavedState(id_map')
           /\ got' = Append(got, alert)
           /\ cur_alert' = alert
           /\ process_started' =
                  [process_started EXCEPT ![alert.message_id] = @ + 1]
    /\ loop_pc' = "processing"
    /\ overshoot' = IF paused THEN overshoot + 1 ELSE overshoot
    /\ UNCHANGED <<next_uuid, early, put_ids, processed, restarts>>
    /\ UNCHANGED <<workerVars, archive, last_call, last_remove, writes>>
    /\ UNCHANGED <<dedupVars, runVars, alert_classes>>
    /\ UNCHANGED authVars

\* process() returns: task_done, next round
ProcessReturn ==
    /\ loop_pc = "processing"
    /\ processed' = processed \cup {cur_alert.message_id}
    /\ cur_alert' = None
    /\ loop_pc' = "idle"
    /\ UNCHANGED <<queue, id_map, next_uuid, storage_queue, got, early, put_ids, restarts>>
    /\ UNCHANGED <<workerVars, archiveVars>>
    /\ UNCHANGED <<wsVars, alert_classes>>
    /\ UNCHANGED authVars

\* what the loop does when process() raises: killed by the exception
AfterRaise_dies == "stopped"

\* what the loop does when process() raises: the bare except logs it and the
\* loop goes round
AfterRaise == "idle"

\* process() raises
ProcessRaise ==
    /\ loop_pc = "processing"
    /\ raised' = raised \cup {cur_alert.message_id}
    /\ cur_alert' = None
    /\ loop_pc' = AfterRaise
    /\ UNCHANGED <<queue, id_map, next_uuid, storage_queue, got, early, put_ids,
                   processed, restarts>>
    /\ UNCHANGED <<paused, observed_paused, handler_shutdown, held, archiveVars>>
    /\ UNCHANGED <<wsVars, alert_classes>>
    /\ UNCHANGED authVars

\* the loop finds _paused set: asyncio.sleep(1), continue
LoopSleep ==
    /\ loop_pc = "idle"
    /\ paused
    /\ loop_pc' = "sleeping"
    /\ observed_paused' = TRUE
    /\ UNCHANGED <<queue, id_map, next_uuid, storage_queue, cur_alert, got, early,
                   put_ids, processed, restarts>>
    /\ UNCHANGED <<paused, raised, handler_shutdown, held, archiveVars>>
    /\ UNCHANGED <<wsVars, alert_classes>>
    /\ UNCHANGED authVars

\* the sleep is over: back to the head of the loop
SleepOver ==
    /\ loop_pc = "sleeping"
    /\ loop_pc' = "idle"
    /\ UNCHANGED <<queue, id_map, next_uuid, storage_queue, cur_alert, got, early,
                   put_ids, processed, restarts>>
    /\ UNCHANGED <<workerVars, archiveVars>>
    /\ UNCHANGED <<wsVars, alert_classes>>
    /\ UNCHANGED authVars

\* the flag is unset and the queue empty: the loop waits in get() for up to a
\* second
LoopWait ==
    /\ loop_pc = "idle"
    /\ ~paused
    /\ queue = <<>>
    /\ loop_pc' = "waiting"
    /\ UNCHANGED <<queue, id_map, next_uuid, storage_queue, cur_alert, got, early,
                   put_ids, processed, restarts>>
    /\ UNCHANGED <<workerVars, archiveVars>>
    /\ UNCHANGED <<wsVars, alert_classes>>
    /\ UNCHANGED authVars

\* asyncio.TimeoutError: nothing was put within the second
GetTimeout ==
    /\ loop_pc = "waiting"
    /\ queue = <<>>
    /\ loop_pc' = "idle"
    /\ UNCHANGED <<queue, id_map, next_uuid, storage_queue, cur_alert, got, early,
                   put_ids, processed, restarts>>
    /\ UNCHANGED <<workerVars, archiveVars>>
    /\ UNCHANGED <<wsVars, alert_classes>>
    /\ UNCHANGED authVars

\* NotificationHandler.pause
Pause ==
    /\ loop_pc # "new"
    /\ ~paused
    /\ paused' = TRUE
    /\ overshoot' = 0
    /\ UNCHANGED <<queueCore, observed_paused, raised, handler_shutdown, held>>
    /\ UNCHANGED <<archive, last_call, last_remove, writes>>
    /\ UNCHANGED <<wsVars, alert_classes>>
    /\ UNCHANGED authVars

\* NotificationHandler.resume
Resume ==
    /\ loop_pc # "new"
    /\ paused
    /\ paused' = FALSE
    /\ observed_paused' = FALSE
    /\ UNCHANGED <<queueCore, raised, handler_shutdown, held, archiveVars>>
    /\ UNCHANGED <<wsVars, alert_classes>>
    /\ UNCHANGED authVars

\* NotificationHandler.shutdown: the _loop task is cancelled at the await it
\* stands at and ends
NotificationHandler_shutdown ==
    /\ handler_shutdown' = TRUE
    /\ loop_pc' = "stopped"
    /\ cur_alert' = None

\* a call of shutdown() while the _loop task exists
Shutdown ==
    /\ loop_pc \notin {"new", "stopped"}
    /\ NotificationHandler_shutdown
    /\ UNCHANGED <<queue, id_map, next_uuid, storage_queue, got, early, put_ids,
                   processed, restarts>>
    /\ UNCHANGED <<paused, observed_paused, raised, held, archiveVars>>
    /\ UNCHANGED <<wsVars, alert_classes>>
    /\ UNCHANGED authVars

\* the process stops: the memory is lost, the stored snapshot and the archive
\* stay
Crash ==
    /\ restarts < MaxRestarts
    /\ loop_pc # "new"
    /\ restarts' = restarts + 1
    /\ queue' = <<>>
    /\ id_map' = <<>>
    /\ cur_alert' = None
    /\ loop_pc' = "new"
    /\ paused' = FALSE
    /\ observed_paused' = FALSE
    /\ UNCHANGED <<next_uuid, storage_queue, got, early, put_ids, processed>>
    /\ UNCHANGED <<raised, handler_shutdown, held, archiveVars>>
    /\ UNCHANGED <<wsVars, alert_classes>>
    /\ UNCHANGED authVars

InitSpecQueue ==
    /\ InitWs
    /\ InitAuth
    /\ InitNoSubs
    /\ max_reconnect = default_max_reconnect
    /\ alert_classes = Registry
    /\ InitQueue

NextQueue ==
    \/ Start
    \/ \E m \in AlertIds, c \in DOMAIN Registry, t \in Timestamps : Notify(m, c, t)
    \/ LoopGet
    \/ ProcessReturn

SpecQueue == InitSpecQueue /\ [][NextQueue]_vars

\* the queue of a process that may stop at any point and be started again
NextRestart ==
    \/ Start
    \/ \E m \in AlertIds, c \in DOMAIN Registry, t \in Timestamps : Notify(m, c, t)
    \/ LoopGet
    \/ ProcessReturn
    \/ Crash

SpecRestart == InitSpecQueue /\ [][NextRestart]_vars

WorkerIds == 1..MaxQueued

\* a notification whose message id was handled before (it has left the seen
\* cache, or comes again after a restart): the alert is put again
Renotify(message_id, channel, timestamp) ==
    /\ loop_pc # "new"
    /\ next_uuid <= MaxPuts
    /\ channel \in DOMAIN alert_classes
    /\ NotificationHandler_call(message_id, channel, timestamp, NoData, TRUE)
    /\ UNCHANGED <<dedupVars, runVars, alert_classes>>
    /\ UNCHANGED authVars

\* NotificationHandler.remove_from_queue(item_id): remove_by_id, and the
\* snapshot is saved when the id was known
RemoveById(alert_id) ==
    /\ loop_pc # "new"
    /\ last_remove.n < MaxRemoves
    /\ LET r == remove_by_id(queue, id_map, alert_id)
       IN  /\ last_remove' = [n |-> last_remove.n + 1, alert_id |-> alert_id,
                              returned |-> r[1]]
           /\ queue' = r[2]
           /\ id_map' = r[3]
           /\ storage_queue' = IF r[1] THEN SavedState(r[3]) ELSE storage_queue
    /\ UNCHANGED <<next_uuid, loop_pc, cur_alert, got, early, put_ids, processed, restarts>>
    /\ UNCHANGED <<workerVars, archive, last_call, overshoot, writes>>
    /\ UNCHANGED <<wsVars, alert_classes>>
    /\ UNCHANGED authVars

\* the save_queue call of get(), among those of the puts (named by item id)
GetSave == 0

SaveCalls == {GetSave} \cup WorkerIds

\* put() up to its await of save_queue: the alert is pushed and recorded, and
\* the list to save is built from the id map as it is now
PutBegin(message_id, channel, timestamp) ==
    /\ loop_pc # "new"
    /\ message_id \notin put_ids
    /\ channel \in DOMAIN alert_classes
    /\ LET alert == create_alert(message_id, channel, timestamp)
       IN  /\ queue' = heappush(queue, alert)
           /\ id_map' = Append(id_map, [alert_id |-> next_uuid, item |-> alert])
    /\ next_uuid' = next_uuid + 1
    /\ put_ids' = put_ids \cup {message_id}
    /\ writes' = writes \cup {[who |-> next_uuid, snap |-> SavedState(id_map')]}
    /\ UNCHANGED <<storage_queue, loop_pc, cur_alert, got, early, processed, restarts>>
    /\ UNCHANGED <<workerVars, archive, last_call, last_remove, overshoot>>
    /\ UNCHANGED <<wsVars, alert_classes>>
    /\ UNCHANGED authVars

\* get() inside wait_for, up to its await of save_queue: the smallest item is
\* popped and dropped from the id map, and the list to save is built
GetPop ==
    /\ MayGet
    /\ queue # <<>>
    /\ LET popped == heappop(queue)
       IN  /\ queue' = popped[2]
           /\ id_map' = DelAt(id_map, FoundId(id_map, popped[1]))
           /\ cur_alert' = popped[1]
    /\ loop_pc' = "saving"
    /\ writes' = writes \cup {[who |-> GetSave, snap |-> SavedState(id_map')]}
    /\ UNCHANGED <<next_uuid, storage_queue, got, early, put_ids, processed, restarts>>
    /\ UNCHANGED <<workerVars, archive, last_call, last_remove, overshoot>>
    /\ UNCHANGED <<wsVars, alert_classes>>
    /\ UNCHANGED authVars

\* one save_queue call commits (each call opens a connection of its own, so
\* the calls in progress commit in any order); the put or get that awaited it
\* returns, and the loop awaits process() of the alert get() returned
WriteDone(who) ==
    /\ \E w \in writes : w.who = who
    /\ LET w == CHOOSE x \in writes : x.who = who
       IN  /\ writes' = writes \ {w}
           /\ storage_queue' = w.snap
    /\ IF who = GetSave
       THEN /\ loop_pc' = "processing"
            /\ got' = Append(got, cur_alert)
            /\ process_started' =
                   [process_started EXCEPT ![cur_alert.message_id] = @ + 1]
       ELSE UNCHANGED <<loop_pc, got, process_started>>
    /\ UNCHANGED <<queue, id_map, next_uuid, cur_alert, early, put_ids, processed, restarts>>
    /\ UNCHANGED <<workerVars, archive, last_call, last_remove, overshoot>>
    /\ UNCHANGED <<dedupVars, runVars, alert_classes>>
    /\ UNCHANGED authVars

\* the second of wait_for is over while get() awaits save_queue: get() is
\* cancelled there, TimeoutError is raised in _loop and passed over.  The
\* cancelled write has reached the database or not.
SaveTimeout(committed) ==
    /\ loop_pc = "saving"
    /\ LET w == CHOOSE x \in writes : x.who = GetSave
       IN  /\ writes' = writes \ {w}
           /\ storage_queue' = IF committed THEN w.snap ELSE storage_queue
    /\ loop_pc' = "idle"
    /\ cur_alert' = None
    /\ UNCHANGED <<queue, id_map, next_uuid, got, early, put_ids, processed, restarts>>
    /\ UNCHANGED <<workerVars, archive, last_call, last_remove, overshoot>>
    /\ UNCHANGED <<wsVars, alert_classes>>
    /\ UNCHANGED authVars

\* the queue and the worker with the awaits of put() and get() as steps of
\* their own; the worker is never paused
NextSnapshot ==
    \/ Start
    \/ \E m \in WorkerIds, t \in Timestamps : PutBegin(m, "channel.follow", t)
    \/ GetPop
    \/ \E who \in SaveCalls : WriteDone(who)
    \/ \E committed \in BOOLEAN : SaveTimeout(committed)
    \/ ProcessReturn
    \/ LoopWait
    \/ GetTimeout

\* the event loop runs the _loop task whenever it can go on, a save that was
\* started and not cancelled commits, and a process() that was started ends
SpecSnapshot ==
    /\ InitSpecQueue
    /\ [][NextSnapshot]_vars
    /\ WF_vars(GetPop)
    /\ WF_vars(\E who \in SaveCalls : WriteDone(who))
    /\ WF_vars(ProcessReturn)
    /\ WF_vars(LoopWait)
    /\ WF_vars(GetTimeout)

\* the queue with remove_by_id, and with alerts that are put more than once
NextRemove ==
    \/ Start
    \/ \E m \in WorkerIds, c \in DOMAIN Registry, t \in Timestamps : Renotify(m, c, t)
    \/ LoopGet
    \/ ProcessReturn
    \/ \E alert_id \in 1..(MaxPuts + 1) : RemoveById(alert_id)

SpecRemove == InitSpecQueue /\ [][NextRemove]_vars

\* the notifications of the archive's specification: a message id may come
\* again (after a restart, or once it left the seen cache), with any payload
ArchiveIds == 1..MaxArchived

Payloads == {0, 1}

Topics == {"channel.follow", "channel.cheer"}

RECURSIVE StartedUpTo(_)
StartedUpTo(n) == IF n = 0 THEN 0 ELSE process_started[n] + StartedUpTo(n - 1)

\* notifications dispatched so far: put into the queue or process() started
Dispatched == Len(id_map) + StartedUpTo(MaxArchived)

\* NotificationHandler.__call__ for any notification
Ingest(message_id, channel, timestamp, data, archived) ==
    /\ Dispatched < MaxIngests
    /\ NotificationHandler_call(message_id, channel, timestamp, data, archived)
    /\ UNCHANGED <<dedupVars, runVars, alert_classes>>
    /\ UNCHANGED authVars

InitSpecArchive ==
    /\ InitWs
    /\ InitAuth
    /\ InitNoSubs
    /\ max_reconnect = default_max_reconnect
    /\ alert_classes = ArchiveRegistry
    /\ InitQueue

NextArchive ==
    \E m \in ArchiveIds, c \in Topics, t \in Timestamps, d \in Payloads, a \in BOOLEAN :
        Ingest(m, c, t, d, a)

SpecArchive == InitSpecArchive /\ [][NextArchive]_vars

\* the worker with pause(), resume() and shutdown()
NextWorker ==
    \/ Start
    \/ StartPaused
    \/ \E m \in WorkerIds, c \in DOMAIN Registry, t \in Timestamps : Notify(m, c, t)
    \/ LoopGet
    \/ ProcessReturn
    \/ LoopSleep
    \/ SleepOver
    \/ LoopWait
    \/ GetTimeout
    \/ Pause
    \/ Resume
    \/ Shutdown

SpecWorker == InitSpecQueue /\ [][NextWorker]_vars

\* the worker that is never paused; the event loop runs the _loop task
\* whenever it can go on, and a process() that was started ends
NextSurvive ==
    \/ Start
    \/ \E m \in WorkerIds, t \in Timestamps : Notify(m, "channel.follow", t)
    \/ LoopGet
    \/ ProcessReturn
    \/ ProcessRaise
    \/ LoopWait
    \/ GetTimeout
    \/ Shutdown

SpecSurvive ==
    /\ InitSpecQueue
    /\ [][NextSurvive]_vars
    /\ WF_vars(LoopGet)
    /\ WF_vars(ProcessReturn \/ ProcessRaise)

(***************************************************************************)
(* TwitchWebsocket.run and _socket_loop.                                   *)
(***************************************************************************)
\* run() up to its while loop: the handler is started (the login that follows
\* belongs to the token handler)
Run ==
    /\ run_pc = "new"
    /\ running' = TRUE
    /\ StartHandler
    /\ run_pc' = "loop"
    /\ UNCHANGED <<socket, connected, session_id, max_reconnect, dials, fails, socketVars>>
    /\ UNCHANGED <<dedupVars, process_started, alert_classes>>
    /\ UNCHANGED authVars

\* while self._running: self._session_id = None; await self._socket_loop()
LoopTest ==
    /\ run_pc = "loop"
    /\ dials < MaxDials
    /\ IF running
       THEN session_id' = NoSession /\ run_pc' = "dial"
       ELSE session_id' = session_id /\ run_pc' = "done"
    /\ UNCHANGED <<socket, connected, running, max_reconnect, dials, fails, socketVars>>
    /\ UNCHANGED <<dedupVars, process_started, alert_classes, queueVars>>
    /\ UNCHANGED authVars

\* websockets.connect(WSURL) returns a socket
ConnectOk ==
    /\ run_pc = "dial"
    /\ socket' = socket + 1
    /\ connected' = TRUE
    /\ run_pc' = "recv"
    /\ dials' = dials + 1
    /\ fails' = 0
    /\ open_sockets' = open_sockets \cup {socket'}
    /\ UNCHANGED <<running, session_id, max_reconnect, last_handover>>
    /\ UNCHANGED <<dedupVars, process_started, alert_classes, queueVars>>
    /\ UNCHANGED authVars

\* websockets.connect(WSURL) raises: run() logs the exception and loops
ConnectFail ==
    /\ run_pc = "dial"
    /\ run_pc' = "loop"
    /\ dials' = dials + 1
    /\ fails' = fails + 1
    /\ UNCHANGED <<socket, connected, running, session_id, max_reconnect, socketVars>>
    /\ UNCHANGED <<dedupVars, process_started, alert_classes, queueVars>>
    /\ UNCHANGED authVars

\* self._socket.recv() raises
RecvError ==
    /\ run_pc = "recv"
    /\ connected /\ running
    /\ connected' = FALSE
    /\ open_sockets' = open_sockets \ {socket}
    /\ UNCHANGED <<max_reconnect, socket, running, session_id, run_pc, dials, fails>>
    /\ UNCHANGED last_handover
    /\ UNCHANGED <<dedupVars, process_started, alert_classes, queueVars>>
    /\ UNCHANGED authVars

\* the receive loop ends: _socket_loop returns to run()
LoopExit ==
    /\ run_pc = "recv"
    /\ ~(connected /\ running)
    /\ run_pc' = "loop"
    /\ UNCHANGED <<socket, connected, running, session_id, max_reconnect, dials, fails, socketVars>>
    /\ UNCHANGED <<dedupVars, process_started, alert_classes, queueVars>>
    /\ UNCHANGED authVars

(***************************************************************************)
(* TwitchWebsocket.handle_message.                                         *)
(***************************************************************************)
ReconnectOutcomes == {"welcome", "other_frame", "recv_error", "dial_error"}

\* handle_session_reconnect: dial the reconnect url and read its first frame.
\* On session_welcome the new socket becomes self._socket; nothing is called
\* on the socket it replaces.
handle_session_reconnect(outcome) ==
    /\ session_id' = IF outcome = "welcome" THEN socket + 1 ELSE session_id
    /\ socket' = IF outcome = "welcome" THEN socket + 1 ELSE socket
    /\ connected' = IF outcome = "recv_error" THEN FALSE ELSE connected
    /\ open_sockets' = IF outcome = "welcome"
                       THEN open_sockets \cup {socket + 1}
                       ELSE open_sockets
    /\ last_handover' = IF outcome = "welcome"
                        THEN [old |-> socket, new |-> socket + 1,
                              seen |-> seen_messages, at |-> Len(frames) + 1]
                        ELSE last_handover
    /\ UNCHANGED <<max_reconnect, running, run_pc, dials, fails>>

\* the frames the socket may deliver next: the next new id, or again one of
\* the ids 1..NumRepeatIds
NextFresh == Cardinality(Range(frames)) + 1

FrameInput(id) ==
    \/ id = NextFresh /\ id <= MaxIds
    \/ /\ id \in Range(frames)
       /\ id <= NumRepeatIds
       /\ Len(frames) - Cardinality(Range(frames)) < MaxRepeats

\* one frame is received and its handle_message task runs
HandleMessage(id) ==
    /\ run_pc = "recv"
    /\ connected /\ running
    /\ FrameInput(id)
    /\ Len(nh_tasks) < MaxPending
    /\ frames' = Append(frames, id)
    /\ IF id \notin Range(seen_messages)
       THEN /\ seen_messages' = MaxSizeDict_setitem(seen_messages, id)
            /\ accepted' = Append(accepted, TRUE)
            /\ CASE MsgType(id) = "notification" ->
                      /\ nh_tasks' = Append(nh_tasks, id)
                      /\ UNCHANGED runVars
                 [] MsgType(id) = "session_reconnect" ->
                      /\ \E outcome \in ReconnectOutcomes :
                            handle_session_reconnect(outcome)
                      /\ UNCHANGED nh_tasks
                 [] OTHER -> UNCHANGED <<nh_tasks, runVars>>
       ELSE /\ accepted' = Append(accepted, FALSE)
            /\ UNCHANGED <<seen_messages, nh_tasks, runVars>>
    /\ UNCHANGED <<process_started, alert_classes, queueVars, sessionVars>>
    /\ UNCHANGED authVars

\* message_timestamp of a frame, as epoch seconds
Timestamp(id) == id

\* payload.event of a notification frame
Data(id) == id % 3

\* the oldest notification_handler task runs (its archive write succeeds)
NotificationCall ==
    /\ nh_tasks # <<>>
    /\ NotificationHandler_call(Head(nh_tasks), Channel(Head(nh_tasks)),
                                Timestamp(Head(nh_tasks)), Data(Head(nh_tasks)), TRUE)
    /\ nh_tasks' = Tail(nh_tasks)
    /\ UNCHANGED <<seen_messages, frames, accepted, sessionVars, runVars, alert_classes>>
    /\ UNCHANGED authVars

\* the session with no alert class registered: every notification is a
\* GenericAlert, whose process() is started detached
InitSpecDedup ==
    /\ InitWs
    /\ InitAuth
    /\ InitNoSubs
    /\ max_reconnect = default_max_reconnect
    /\ alert_classes = NoRegistry
    /\ InitQueue

NextDedup ==
    \/ Run
    \/ LoopTest
    \/ ConnectOk
    \/ LoopExit
    \/ \E id \in Ids : HandleMessage(id)
    \/ NotificationCall

SpecDedup == InitSpecDedup /\ [][NextDedup]_vars

\* the run loop alone, with dials that fail and sockets that break
InitSpecRun ==
    /\ InitWs
    /\ InitAuth
    /\ InitNoSubs
    /\ max_reconnect \in {default_max_reconnect, 2}
    /\ alert_classes = NoRegistry
    /\ InitQueue

NextRun ==
    \/ Run
    \/ LoopTest
    \/ ConnectOk
    \/ ConnectFail
    \/ RecvError
    \/ LoopExit

SpecRun == InitSpecRun /\ [][NextRun]_vars

(***************************************************************************)
(* TokenHandler (oauth.py) and RequestHandler._request (http.py).  A task  *)
(* runs from one await that can suspend it to the next in one step.        *)
(***************************************************************************)
InRefresh(t) == task_pc[t] \in {"refresh_wait", "reauth", "refresh_save"}

\* The event loop runs ready tasks in the order in which they became ready: a
\* task the event has woken runs before any task that has run since then runs
\* again (the input a task waits for after the wake-up arrives after it).
Sched(t) ==
    \/ \A u \in Tasks : task_pc[u] # "hdr_woken"
    \/ t \notin ran_since_wake

Ran(t) ==
    ran_since_wake' =
        IF \A u \in Tasks : task_pc'[u] # "hdr_woken" THEN {}
        ELSE ran_since_wake \cup {t}

OthersInRefresh(t) == \E u \in Tasks \ {t} : InRefresh(u)

\* _refresh up to its first await: clear the event, post the refresh request
BeginRefresh(t) ==
    /\ refresh_event' = FALSE
    /\ task_pc' = [task_pc EXCEPT ![t] = "refresh_wait"]
    /\ nref' = [nref EXCEPT ![t] = @ + 1]

\* get_token returns self._token to _headers and _request sends the request
Issue(t) ==
    /\ task_pc' = [task_pc EXCEPT ![t] = "sent"]
    /\ issues' = [issues EXCEPT ![t] = @ + 1]
    /\ gt_overlap' = (gt_overlap \/ OthersInRefresh(t))

\* TokenHandler._login, storage holding no token: the token the caller
\* supplies is taken as it is, else _get_new_token fetches one and
\* _token_request saves it; then _run creates the _refresher task
Login(supplied) ==
    /\ task_pc[Refresher] = "new"
    /\ token = 0
    /\ token' = 1
    /\ saved_token' = IF supplied THEN saved_token ELSE 1
    /\ task_pc' = [task_pc EXCEPT ![Refresher] = "created"]
    /\ refresh_task' = "task"
    /\ UNCHANGED <<refresh_event, token_running, issues, nref, gt_overlap, ran_since_wake>>
    /\ UNCHANGED <<stop_calls, stop_error, last_tick, slept>>
    /\ UNCHANGED <<wsVars, alert_classes, queueVars, reconVars, oauthVars>>

\* _refresher up to the first validation request; the event wakes the callers
\* of get_token that wait for it
RefresherStart ==
    /\ task_pc[Refresher] = "created"
    /\ Sched(Refresher)
    /\ token_running' = TRUE
    /\ refresh_event' = TRUE
    /\ task_pc' = [t \in Tasks |->
                     IF t = Refresher THEN "validating"
                     ELSE IF task_pc[t] = "hdr_blocked" THEN "hdr_woken"
                     ELSE task_pc[t]]
    /\ UNCHANGED <<token, issues, nref, gt_overlap>>
    /\ Ran(Refresher)
    /\ UNCHANGED <<wsVars, alert_classes, queueVars, reconVars, oauthVars>>
    /\ UNCHANGED validatorVars

\* the seconds the token has left at a validation: expires_time - time.time()
Remaining == {refresh_margin - 1, refresh_margin, refresh_margin + 1}

Expiring_strict(remaining) == remaining < refresh_margin

\* self._token['expires_time'] <= time.time()+3600
Expiring(remaining) == remaining <= refresh_margin

\* the validation answers 200: refresh when the token expires within the hour,
\* else sleep
ValidateOk(remaining) ==
    /\ task_pc[Refresher] = "validating"
    /\ Sched(Refresher)
    /\ IF Expiring(remaining)
       THEN /\ nref[Refresher] < MaxRefreshes
            /\ BeginRefresh(Refresher)
       ELSE /\ task_pc' = [task_pc EXCEPT ![Refresher] = "sleeping"]
            /\ UNCHANGED <<refresh_event, nref>>
    /\ last_tick' = [ticked |-> TRUE, remaining |-> remaining, nref |-> nref[Refresher]]
    /\ slept' = (slept /\ ~Expiring(remaining))
    /\ UNCHANGED <<token, token_running, issues, gt_overlap>>
    /\ UNCHANGED <<refresh_task, stop_calls, stop_error, saved_token>>
    /\ Ran(Refresher)
    /\ UNCHANGED <<wsVars, alert_classes, queueVars, reconVars, oauthVars>>

\* the validation answers 401
ValidateFail ==
    /\ task_pc[Refresher] = "validating"
    /\ Sched(Refresher)
    /\ nref[Refresher] < MaxRefreshes
    /\ BeginRefresh(Refresher)
    /\ slept' = FALSE
    /\ UNCHANGED <<token, token_running, issues, gt_overlap>>
    /\ Ran(Refresher)
    /\ UNCHANGED <<wsVars, alert_classes, queueVars, reconVars, oauthVars>>
    /\ UNCHANGED <<refresh_task, stop_calls, stop_error, last_tick, saved_token>>

\* the validation answers anything else: the task ends with an exception
ValidateError ==
    /\ task_pc[Refresher] = "validating"
    /\ Sched(Refresher)
    /\ task_pc' = [task_pc EXCEPT ![Refresher] = "dead"]
    /\ UNCHANGED <<token, refresh_event, token_running, issues, nref, gt_overlap>>
    /\ Ran(Refresher)
    /\ UNCHANGED <<wsVars, alert_classes, queueVars, reconVars, oauthVars>>
    /\ UNCHANGED validatorVars

\* asyncio.sleep(3600) returns and the loop validates again
SleepDone ==
    /\ task_pc[Refresher] = "sleeping"
    /\ Sched(Refresher)
    /\ token_running
    /\ task_pc' = [task_pc EXCEPT ![Refresher] = "validating"]
    /\ slept' = TRUE
    /\ UNCHANGED <<token, refresh_event, token_running, issues, nref, gt_overlap>>
    /\ Ran(Refresher)
    /\ UNCHANGED <<wsVars, alert_classes, queueVars, reconVars, oauthVars>>
    /\ UNCHANGED <<refresh_task, stop_calls, stop_error, last_tick, saved_token>>

\* _token_request answers 200 to the refresh: the token is replaced and saved
TokenRefreshed(t) ==
    /\ task_pc[t] = "refresh_wait"
    /\ Sched(t)
    /\ token' = token + 1
    /\ task_pc' = [task_pc EXCEPT ![t] = "refresh_save"]
    /\ UNCHANGED <<refresh_event, token_running, issues, nref, gt_overlap>>
    /\ Ran(t)
    /\ UNCHANGED <<wsVars, alert_classes, queueVars, reconVars, oauthVars>>
    /\ UNCHANGED validatorVars

\* _token_request raises: _get_new_token waits for an authorization code
RefreshRejected(t) ==
    /\ task_pc[t] = "refresh_wait"
    /\ Sched(t)
    /\ task_pc' = [task_pc EXCEPT ![t] = "reauth"]
    /\ UNCHANGED <<token, refresh_event, token_running, issues, nref, gt_overlap>>
    /\ Ran(t)
    /\ UNCHANGED <<wsVars, alert_classes, queueVars, reconVars, oauthVars>>
    /\ UNCHANGED validatorVars

\* the code arrives and _get_new_token's token request answers: with 200 the
\* token is replaced, else the exception leaves _refresh before the event is set
Reauth(t, ok) ==
    /\ task_pc[t] = "reauth"
    /\ Sched(t)
    /\ IF ok
       THEN /\ token' = token + 1
            /\ task_pc' = [task_pc EXCEPT ![t] = "refresh_save"]
       ELSE /\ token' = token
            /\ task_pc' = [task_pc EXCEPT ![t] =
                             IF t = Refresher THEN "dead" ELSE "failed"]
    /\ UNCHANGED <<refresh_event, token_running, issues, nref, gt_overlap>>
    /\ Ran(t)
    /\ UNCHANGED <<wsVars, alert_classes, queueVars, reconVars, oauthVars>>
    /\ UNCHANGED validatorVars

\* save_token has written the token; _refresh sets the event and returns:
\* the _refresher validates again; a
\* _request takes the headers twice (get_token returns at once, the event
\* being set) and sends the request again
RefreshEnd(t) ==
    /\ task_pc[t] = "refresh_save"
    /\ Sched(t)
    /\ refresh_event' = TRUE
    /\ LET woken == [u \in Tasks |->
                       IF task_pc[u] = "hdr_blocked" THEN "hdr_woken" ELSE task_pc[u]]
       IN  IF t = Refresher
           THEN /\ task_pc' = [woken EXCEPT ![t] = "validating"]
                /\ UNCHANGED <<issues, gt_overlap>>
           ELSE /\ task_pc' = [woken EXCEPT ![t] = "sent"]
                /\ issues' = [issues EXCEPT ![t] = @ + 1]
                /\ gt_overlap' = (gt_overlap \/ OthersInRefresh(t))
    /\ saved_token' = token
    /\ UNCHANGED <<token, token_running, nref>>
    /\ Ran(t)
    /\ UNCHANGED <<wsVars, alert_classes, queueVars, reconVars, oauthVars>>
    /\ UNCHANGED <<refresh_task, stop_calls, stop_error, last_tick, slept>>

\* get_token as _headers calls it: return at once when the event is set, else
\* wait for it
GetToken(t) ==
    IF refresh_event
    THEN Issue(t)
    ELSE /\ task_pc' = [task_pc EXCEPT ![t] = "hdr_blocked"]
         /\ UNCHANGED <<issues, gt_overlap>>

\* a call of _request by a logged-in client
RequestStart(t) ==
    /\ task_pc[t] = "idle"
    /\ Sched(t)
    /\ token # 0
    /\ GetToken(t)
    /\ UNCHANGED <<token, refresh_event, token_running, nref>>
    /\ Ran(t)
    /\ UNCHANGED <<wsVars, alert_classes, queueVars, reconVars, oauthVars>>
    /\ UNCHANGED validatorVars

\* the task that waited in get_token runs again: wait() has returned
GetTokenResume(t) ==
    /\ task_pc[t] = "hdr_woken"
    /\ Sched(t)
    /\ Issue(t)
    /\ UNCHANGED <<token, refresh_event, token_running, nref>>
    /\ Ran(t)
    /\ UNCHANGED <<wsVars, alert_classes, queueVars, reconVars, oauthVars>>
    /\ UNCHANGED validatorVars

\* the response is 401: refresh, then take the headers and call _request again
Response401(t) ==
    /\ task_pc[t] = "sent"
    /\ Sched(t)
    /\ issues[t] < MaxIssues
    /\ BeginRefresh(t)
    /\ UNCHANGED <<token, token_running, issues, gt_overlap>>
    /\ Ran(t)
    /\ UNCHANGED <<wsVars, alert_classes, queueVars, reconVars, oauthVars>>
    /\ UNCHANGED validatorVars

\* the response is 429: sleep until the limit is reset
Response429(t) ==
    /\ task_pc[t] = "sent"
    /\ Sched(t)
    /\ issues[t] < MaxIssues
    /\ task_pc' = [task_pc EXCEPT ![t] = "ratelimited"]
    /\ UNCHANGED <<token, refresh_event, token_running, issues, nref, gt_overlap>>
    /\ Ran(t)
    /\ UNCHANGED <<wsVars, alert_classes, queueVars, reconVars, oauthVars>>
    /\ UNCHANGED validatorVars

\* the sleep is over: _request is called again
RateLimitOver(t) ==
    /\ task_pc[t] = "ratelimited"
    /\ Sched(t)
    /\ GetToken(t)
    /\ UNCHANGED <<token, refresh_event, token_running, nref>>
    /\ Ran(t)
    /\ UNCHANGED <<wsVars, alert_classes, queueVars, reconVars, oauthVars>>
    /\ UNCHANGED validatorVars

\* any other response: raise_for_status raises, or the body is returned
ResponseOther(t, ok) ==
    /\ task_pc[t] = "sent"
    /\ Sched(t)
    /\ task_pc' = [task_pc EXCEPT ![t] = IF ok THEN "done" ELSE "failed"]
    /\ UNCHANGED <<token, refresh_event, token_running, issues, nref, gt_overlap>>
    /\ Ran(t)
    /\ UNCHANGED <<wsVars, alert_classes, queueVars, reconVars, oauthVars>>
    /\ UNCHANGED validatorVars

InitSpecToken ==
    /\ InitWs
    /\ max_reconnect = default_max_reconnect
    /\ alert_classes = NoRegistry
    /\ InitQueue
    /\ InitAuth
    /\ InitNoSubs

NextToken ==
    \/ \E supplied \in BOOLEAN : Login(supplied)
    \/ RefresherStart
    \/ \E remaining \in Remaining : ValidateOk(remaining)
    \/ ValidateFail
    \/ ValidateError
    \/ SleepDone
    \/ \E t \in Tasks : TokenRefreshed(t)
    \/ \E t \in Tasks : RefreshRejected(t)
    \/ \E t \in Tasks, ok \in BOOLEAN : Reauth(t, ok)
    \/ \E t \in Tasks : RefreshEnd(t)
    \/ \E t \in Requests : RequestStart(t)
    \/ \E t \in Requests : GetTokenResume(t)
    \/ \E t \in Requests : Response401(t)
    \/ \E t \in Requests : Response429(t)
    \/ \E t \in Requests : RateLimitOver(t)
    \/ \E t \in Requests, ok \in BOOLEAN : ResponseOther(t, ok)

SpecToken == InitSpecToken /\ [][NextToken]_vars

\* TokenHandler.stop: _running is cleared, the task cancelled and awaited, and
\* _refresh_task set to None.  None has no cancel(); a task that ended with
\* an exception hands it to the await.  A task cancelled in its sleep leaves
\* its loop, cancelled elsewhere it ends with CancelledError, which stop()
\* catches.
TokenHandler_stop ==
    /\ stop_calls' = stop_calls + 1
    /\ token_running' = FALSE
    /\ IF refresh_task = "none"
       THEN /\ stop_error' = "AttributeError"
            /\ UNCHANGED <<refresh_task, task_pc>>
       ELSE IF task_pc[Refresher] = "dead"
       THEN /\ stop_error' = "task_exception"
            /\ UNCHANGED <<refresh_task, task_pc>>
       ELSE /\ refresh_task' = "none"
            /\ task_pc' = [task_pc EXCEPT ![Refresher] = "cancelled"]
            /\ UNCHANGED stop_error

\* a call of stop()
Stop ==
    /\ stop_calls < MaxStops
    /\ TokenHandler_stop
    /\ UNCHANGED <<token, refresh_event, issues, nref, gt_overlap, ran_since_wake, last_tick,
                   slept, saved_token>>
    /\ UNCHANGED <<wsVars, alert_classes, queueVars, reconVars, oauthVars>>

\* the _refresher task alone, and stop()
NextValidator ==
    \/ \E supplied \in BOOLEAN : Login(supplied)
    \/ RefresherStart
    \/ \E remaining \in Remaining : ValidateOk(remaining)
    \/ ValidateFail
    \/ ValidateError
    \/ SleepDone
    \/ TokenRefreshed(Refresher)
    \/ RefreshRejected(Refresher)
    \/ \E ok \in BOOLEAN : Reauth(Refresher, ok)
    \/ RefreshEnd(Refresher)
    \/ Stop

SpecValidator == InitSpecToken /\ [][NextValidator]_vars

\* the _refresher when stop() is never called, every request is answered
\* and the task runs whenever it can: a step is taken as long as one is
\* possible
NextGate ==
    \/ \E supplied \in BOOLEAN : Login(supplied)
    \/ RefresherStart
    \/ \E remaining \in Remaining : ValidateOk(remaining)
    \/ ValidateFail
    \/ ValidateError
    \/ SleepDone
    \/ TokenRefreshed(Refresher)
    \/ RefreshRejected(Refresher)
    \/ \E ok \in BOOLEAN : Reauth(Refresher, ok)
    \/ RefreshEnd(Refresher)

SpecGate == InitSpecToken /\ [][NextGate]_vars /\ WF_vars(NextGate)

(***************************************************************************)
(* _socket_loop, the handle_message tasks it creates, and close().  Every  *)
(* frame carries a new message id here.  A socket is a number, and the     *)
(* session id its session_welcome carries is that number.                  *)
(***************************************************************************)
FrameTypes == {"session_welcome", "session_reconnect", "session_keepalive", "notification"}

\* the socket handle_session_reconnect dials in the i-th handle_message task
ReconnectSocket(i) == 100 * i

\* the server sends session_welcome as the first frame of a socket, once
Welcomed(s) ==
    \/ \E i \in DOMAIN hm_tasks :
          \/ hm_tasks[i].type = "session_welcome" /\ hm_tasks[i].sock = s
          \/ s = ReconnectSocket(i)

\* the tasks _socket_loop waits for before it calls recv() again, as if each
\* frame were handled inline (await self.handle_message(...))
socket_loop_waits_for_inline(tasks) ==
    {i \in DOMAIN tasks : tasks[i].pc \notin {"ended", "failed"}}

\* the tasks _socket_loop waits for before it calls recv() again: none,
\* asyncio.create_task(self.handle_message(...)) returns at once
socket_loop_waits_for(tasks) == {}

\* a created task has not run yet; tasks start in the order of their creation,
\* when the reader next suspends
NoneCreated == \A i \in DOMAIN hm_tasks : hm_tasks[i].pc # "created"

sessionFrame ==
    /\ UNCHANGED <<seen_messages, nh_tasks, frames, accepted, process_started>>
    /\ UNCHANGED <<alert_classes, queueVars, authVars>>

\* the socket the reader's pending recv() was called on: self._socket as it
\* was at the call, which handle_session_reconnect may have replaced since
RecvSocket == IF stale_recv # 0 THEN stale_recv ELSE socket

\* recv() returns a frame: a handle_message task is created for it, and the
\* next recv() is called on self._socket as it is now
RecvFrame(type) ==
    /\ run_pc = "recv"
    /\ connected /\ running
    /\ Len(hm_tasks) < MaxFrames
    /\ socket_loop_waits_for(hm_tasks) = {}
    /\ (type = "session_welcome") <=> ~Welcomed(RecvSocket)
    /\ hm_tasks' = Append(hm_tasks, [type |-> type, sock |-> RecvSocket, pc |-> "created",
                                     outcome |-> "none"])
    /\ stale_recv' = 0
    /\ UNCHANGED <<close_log, runVars>>
    /\ sessionFrame

\* handle_message runs to its first await: handle_session_welcome sets the
\* session id and requests the subscriptions, handle_session_reconnect dials,
\* a notification is handed to a task of its own, a keepalive is passed
TaskStart(i) ==
    /\ i \in DOMAIN hm_tasks
    /\ hm_tasks[i].pc = "created"
    /\ \A j \in 1..(i - 1) : hm_tasks[j].pc # "created"
    /\ hm_tasks' = [hm_tasks EXCEPT ![i].pc =
                      CASE hm_tasks[i].type = "session_welcome" -> "listing"
                        [] hm_tasks[i].type = "session_reconnect" -> "dialing"
                        [] OTHER -> "ended"]
    /\ session_id' = IF hm_tasks[i].type = "session_welcome"
                     THEN hm_tasks[i].sock
                     ELSE session_id
    /\ UNCHANGED <<socket, connected, running, max_reconnect, run_pc, dials, fails, socketVars>>
    /\ UNCHANGED <<close_log, stale_recv>>
    /\ sessionFrame

\* handle_session_welcome returns (its requests need not ever be answered)
WelcomeDone(i) ==
    /\ i \in DOMAIN hm_tasks
    /\ hm_tasks[i].pc = "listing"
    /\ hm_tasks' = [hm_tasks EXCEPT ![i].pc = "ended"]
    /\ UNCHANGED <<close_log, stale_recv, runVars>>
    /\ sessionFrame

\* websockets.connect(reconnect_url) returns, or raises: the call stands
\* before the try, so the exception ends the handle_message task
ReconnectDial(i, ok) ==
    /\ i \in DOMAIN hm_tasks
    /\ hm_tasks[i].pc = "dialing"
    /\ IF ok
       THEN /\ hm_tasks' = [hm_tasks EXCEPT ![i].pc = "waiting"]
            /\ open_sockets' = open_sockets \cup {ReconnectSocket(i)}
       ELSE /\ hm_tasks' = [hm_tasks EXCEPT ![i].pc = "failed", ![i].outcome = "dial_error"]
            /\ UNCHANGED open_sockets
    /\ UNCHANGED <<socket, connected, running, session_id, max_reconnect, run_pc, dials, fails>>
    /\ UNCHANGED <<last_handover, close_log, stale_recv>>
    /\ sessionFrame

\* the first recv() on the new socket: on session_welcome the session id and
\* the socket are replaced; on any other frame nothing is done; an exception
\* clears _connected and closes the new socket
ReconnectFirst(i, outcome) ==
    /\ i \in DOMAIN hm_tasks
    /\ hm_tasks[i].pc = "waiting"
    /\ outcome \in {"welcome", "other_frame", "recv_error"}
    /\ hm_tasks' = [hm_tasks EXCEPT ![i].pc = "ended", ![i].outcome = outcome]
    /\ session_id' = IF outcome = "welcome" THEN ReconnectSocket(i) ELSE session_id
    /\ socket' = IF outcome = "welcome" THEN ReconnectSocket(i) ELSE socket
    /\ connected' = IF outcome = "recv_error" THEN FALSE ELSE connected
    /\ open_sockets' = IF outcome = "recv_error"
                       THEN open_sockets \ {ReconnectSocket(i)}
                       ELSE open_sockets
    /\ last_handover' = IF outcome = "welcome"
                        THEN [old |-> socket, new |-> ReconnectSocket(i),
                              seen |-> seen_messages, at |-> i]
                        ELSE last_handover
    /\ stale_recv' = IF outcome = "welcome" /\ run_pc = "recv" /\ stale_recv = 0
                     THEN socket
                     ELSE stale_recv
    /\ UNCHANGED <<running, max_reconnect, run_pc, dials, fails, close_log>>
    /\ sessionFrame

\* the reader suspends in connect() and in a recv() that raises: the tasks
\* created before have run by the time it goes on
SessionLoopTest == dials < MaxSessionDials /\ LoopTest

SessionConnectOk == NoneCreated /\ ConnectOk

SessionRecvError == NoneCreated /\ stale_recv = 0 /\ RecvError

SessionLoopExit == stale_recv = 0 /\ LoopExit

\* the pending recv() raises on the socket that was replaced (the server
\* closes the old connection after the reconnect): the except clause of
\* _socket_loop clears _connected all the same
StaleRecvError ==
    /\ run_pc = "recv"
    /\ stale_recv # 0
    /\ NoneCreated
    /\ connected' = FALSE
    /\ open_sockets' = open_sockets \ {stale_recv}
    /\ stale_recv' = 0
    /\ UNCHANGED <<max_reconnect, socket, running, session_id, run_pc, dials, fails>>
    /\ UNCHANGED <<last_handover, hm_tasks, close_log>>
    /\ sessionFrame

\* the steps of close() in the order of its statements: _running = False,
\* self._socket.close(), then RequestHandler.shutdown (server.stop and
\* token.stop, an exception of either logged), then
\* notification_handler.shutdown
CloseSteps == <<"flag", "socket", "server", "validator", "worker">>

\* self._socket is None until the first connect() returned: the statement
\* `await self._socket.close()` then raises AttributeError out of close()
CloseRaises(step) == step = "socket" /\ socket = 0

CloseStep ==
    /\ run_pc # "new"
    /\ Len(close_log) < Len(CloseSteps)
    /\ "raised" \notin Range(close_log)
    /\ LET step == CloseSteps[Len(close_log) + 1]
       IN  /\ close_log' = Append(close_log, IF CloseRaises(step) THEN "raised" ELSE step)
           /\ running' = IF step = "flag" THEN FALSE ELSE running
           /\ open_sockets' = IF step = "socket" THEN open_sockets \ {socket} ELSE open_sockets
           /\ IF step = "validator"
              THEN /\ TokenHandler_stop
                   /\ UNCHANGED <<token, refresh_event, issues, nref, gt_overlap,
                                  ran_since_wake, last_tick, slept, saved_token>>
              ELSE UNCHANGED tokenVars
           /\ IF step = "worker"
              THEN /\ NotificationHandler_shutdown
                   /\ UNCHANGED <<queue, id_map, next_uuid, storage_queue, got, early,
                                  put_ids, processed, restarts>>
                   /\ UNCHANGED <<paused, observed_paused, raised, held, archiveVars>>
              ELSE UNCHANGED queueVars
    /\ UNCHANGED <<socket, connected, session_id, max_reconnect, run_pc, dials, fails>>
    /\ UNCHANGED <<last_handover, hm_tasks, stale_recv>>
    /\ UNCHANGED <<seen_messages, nh_tasks, frames, accepted, process_started>>
    /\ UNCHANGED <<alert_classes, reconVars, oauthVars>>

NextSession ==
    \/ Run
    \/ SessionLoopTest
    \/ SessionConnectOk
    \/ SessionRecvError
    \/ StaleRecvError
    \/ SessionLoopExit
    \/ \E type \in FrameTypes : RecvFrame(type)
    \/ \E i \in 1..MaxFrames : TaskStart(i)
    \/ \E i \in 1..MaxFrames : WelcomeDone(i)
    \/ \E i \in 1..MaxFrames, ok \in BOOLEAN : ReconnectDial(i, ok)
    \/ \E i \in 1..MaxFrames, outcome \in ReconnectOutcomes : ReconnectFirst(i, outcome)
    \/ CloseStep

SpecSession == InitSpecDedup /\ [][NextSession]_vars

(***************************************************************************)
(* TwitchWebsocket.handle_session_welcome and TwitchApi.unsubAllEvents     *)
(* against the subscriptions the server holds.                             *)
(***************************************************************************)
SessionIds == 1..NumSessions

SubIds == 1..MaxSubId

\* a session_welcome frame is handled: the session id is stored and
\* unsubAllEvents awaits getEventSubs.  A welcome for another session id
\* starts a new comparison of runs.
SessionWelcome(sid) ==
    /\ recon_pc \in {"idle", "done", "failed"}
    /\ Len(finals) < MaxRuns
    /\ next_sub_id + Len(Channels) <= MaxSubId + 1
    /\ session_id' = sid
    /\ recon_sid' = sid
    /\ recon_pc' = "list"
    /\ recon_out' = {}
    /\ recon_del' = {}
    /\ recon_todo' = <<>>
    /\ IF sid = session_id /\ recon_pc # "failed"
       THEN UNCHANGED <<creates, finals, recon_failed>>
       ELSE creates' = <<>> /\ finals' = <<>> /\ recon_failed' = FALSE
    /\ UNCHANGED <<server_subs, next_sub_id, changes, recon_listed>>
    /\ UNCHANGED <<socket, connected, running, max_reconnect, run_pc, dials, fails, socketVars>>
    /\ UNCHANGED <<dedupVars, process_started, alert_classes, queueVars, tokenVars, oauthVars>>

\* getEventSubs returns r: the loop over r['data'] fills out and creates one
\* deleteEventSub task for every subscription that is not enabled
ListSubs ==
    /\ recon_pc = "list"
    /\ recon_out' = {sub \in server_subs : sub.session = recon_sid}
    /\ recon_del' = {sub.id : sub \in {x \in server_subs : x.status # "enabled"}}
    /\ recon_pc' = "delete"
    /\ recon_listed' = server_subs
    /\ UNCHANGED <<server_subs, next_sub_id, recon_todo, creates, finals,
                   recon_failed>>
    /\ UNCHANGED changes
    /\ UNCHANGED <<recon_sid, wsVars, alert_classes, queueVars, tokenVars, oauthVars>>

\* getEventSubs raises: handle_session_welcome ends with the exception
ListFails ==
    /\ recon_pc = "list"
    /\ recon_pc' = "failed"
    /\ recon_failed' = TRUE
    /\ UNCHANGED <<server_subs, next_sub_id, recon_out, recon_del, recon_todo,
                   creates, finals, changes, recon_listed>>
    /\ UNCHANGED <<recon_sid, wsVars, alert_classes, queueVars, tokenVars, oauthVars>>

\* one deleteEventSub task finishes: the server drops the subscription, or the
\* request fails and deleteEventSub returns False
DeleteSub(id, ok) ==
    /\ recon_pc = "delete"
    /\ id \in recon_del
    /\ recon_del' = recon_del \ {id}
    /\ server_subs' = IF ok THEN {sub \in server_subs : sub.id # id} ELSE server_subs
    /\ recon_failed' = (recon_failed \/ ~ok)
    /\ UNCHANGED <<next_sub_id, recon_pc, recon_out, recon_todo, creates, finals, changes, recon_listed>>
    /\ UNCHANGED <<recon_sid, wsVars, alert_classes, queueVars, tokenVars, oauthVars>>

\* the run of handle_session_welcome is over
EndRun(n, subs) ==
    /\ creates' = Append(creates, n)
    /\ finals' = Append(finals, subs)

\* asyncio.gather returns and unsubAllEvents returns out: with an empty out
\* every channel is subscribed to
GatherDone ==
    /\ recon_pc = "delete"
    /\ recon_del = {}
    /\ IF recon_out = {} /\ Channels # <<>>
       THEN /\ recon_pc' = "create"
            /\ recon_todo' = Channels
            /\ UNCHANGED <<creates, finals>>
       ELSE /\ recon_pc' = "done"
            /\ recon_todo' = <<>>
            /\ EndRun(0, server_subs)
    /\ UNCHANGED <<server_subs, next_sub_id, recon_out, recon_del, recon_failed, changes, recon_listed>>
    /\ UNCHANGED <<recon_sid, wsVars, alert_classes, queueVars, tokenVars, oauthVars>>

\* createEventSub for the next channel, with self._session_id as it is at
\* the call: the server adds an enabled subscription bound to that session
\* (a request without a session id is one that fails)
NewSub == {Sub(next_sub_id, Head(recon_todo), "enabled", session_id)}

CreateSub ==
    /\ recon_pc = "create"
    /\ recon_todo # <<>>
    /\ session_id # NoSession
    /\ server_subs' = server_subs \cup NewSub
    /\ next_sub_id' = next_sub_id + 1
    /\ recon_todo' = Tail(recon_todo)
    /\ IF Tail(recon_todo) = <<>>
       THEN recon_pc' = "done" /\ EndRun(Len(Channels), server_subs \cup NewSub)
       ELSE UNCHANGED <<recon_pc, creates, finals>>
    /\ UNCHANGED <<recon_out, recon_del, recon_failed, changes, recon_listed>>
    /\ UNCHANGED <<recon_sid, wsVars, alert_classes, queueVars, tokenVars, oauthVars>>

\* createEventSub raises: handle_session_welcome ends with the exception
CreateFails ==
    /\ recon_pc = "create"
    /\ recon_todo # <<>>
    /\ recon_pc' = "failed"
    /\ recon_failed' = TRUE
    /\ UNCHANGED <<server_subs, next_sub_id, recon_out, recon_del, recon_todo,
                   creates, finals, changes, recon_listed>>
    /\ UNCHANGED <<recon_sid, wsVars, alert_classes, queueVars, tokenVars, oauthVars>>

\* the server revokes an enabled subscription (the user withdrew the
\* authorization): the runs that follow meet a new state of the server
Revoke(id) ==
    /\ recon_pc \in {"idle", "done", "failed"}
    /\ changes < MaxChanges
    /\ \E sub \in server_subs : sub.id = id /\ sub.status = "enabled"
    /\ server_subs' = {IF sub.id = id
                       THEN Sub(sub.id, sub.type, "authorization_revoked", sub.session)
                       ELSE sub : sub \in server_subs}
    /\ changes' = changes + 1
    /\ UNCHANGED recon_listed
    /\ creates' = <<>>
    /\ finals' = <<>>
    /\ recon_failed' = FALSE
    /\ UNCHANGED <<next_sub_id, recon_pc, recon_out, recon_del, recon_todo>>
    /\ UNCHANGED <<recon_sid, wsVars, alert_classes, queueVars, tokenVars, oauthVars>>

\* while handle_session_welcome awaits its requests, the reader's recv()
\* fails and run() clears the session id before it dials again
SessionCleared ==
    /\ recon_pc \in {"list", "delete", "create"}
    /\ session_id # NoSession
    /\ session_id' = NoSession
    /\ UNCHANGED <<socket, connected, running, max_reconnect, run_pc, dials, fails, socketVars>>
    /\ UNCHANGED <<dedupVars, process_started, alert_classes, queueVars, tokenVars, oauthVars>>
    /\ UNCHANGED reconVars

\* while handle_session_welcome awaits its requests, handle_session_reconnect
\* reads the session_welcome of its new socket and stores that session id
SessionSwap(sid) ==
    /\ recon_pc \in {"list", "delete", "create"}
    /\ session_id \notin {NoSession, sid}
    /\ session_id' = sid
    /\ UNCHANGED <<socket, connected, running, max_reconnect, run_pc, dials, fails, socketVars>>
    /\ UNCHANGED <<dedupVars, process_started, alert_classes, queueVars, tokenVars, oauthVars>>
    /\ UNCHANGED reconVars

InitSpecRecon ==
    /\ InitWs
    /\ max_reconnect = default_max_reconnect
    /\ alert_classes = NoRegistry
    /\ InitQueue
    /\ InitAuth
    /\ server_subs \in SUBSET StaleSubs

NextRecon ==
    \/ \E sid \in SessionIds : SessionWelcome(sid)
    \/ ListSubs
    \/ ListFails
    \/ \E id \in SubIds, ok \in BOOLEAN : DeleteSub(id, ok)
    \/ GatherDone
    \/ CreateSub
    \/ CreateFails
    \/ \E id \in SubIds : Revoke(id)

SpecRecon == InitSpecRecon /\ [][NextRecon]_vars

\* the reconciliation with the session id changing under it
NextReconSession ==
    \/ NextRecon
    \/ SessionCleared
    \/ \E sid \in SessionIds : SessionSwap(sid)

SpecReconSession == InitSpecRecon /\ [][NextReconSession]_vars

(***************************************************************************)
(* TokenHandler: the authorization code flow (_get_new_token,              *)
(* _get_auth_code, _callback_handler).  A state or a code that a callback  *)
(* does not carry is 0.                                                    *)
(***************************************************************************)
CallbackStates == 0..MaxFlows

CallbackCodes == 0..NumCodes

\* _callback_handler's first test passes
StateMatches_any(st) == TRUE

StateMatches(st) == st = auth_state

\* _get_new_token calls _get_auth_code: a new future and a new state, the
\* browser is opened and the future awaited
StartFlow ==
    /\ flow_pc = "idle"
    /\ auth_state < MaxFlows
    /\ auth_future' = "pending"
    /\ auth_state' = auth_state + 1
    /\ flow_pc' = "waiting"
    /\ UNCHANGED <<auth_code, exchanged, good_codes, cb_count, last_cb>>
    /\ UNCHANGED <<wsVars, alert_classes, queueVars, tokenVars, reconVars>>

\* the status _callback_handler answers with (500: the handler raised)
CallbackStatus(st, code, err) ==
    IF ~StateMatches(st) \/ err THEN 400
    ELSE IF code # 0 /\ auth_future = "none" THEN 500
    ELSE 200

\* the web server calls _callback_handler with the query of a request
Callback(st, code, err) ==
    /\ cb_count < MaxCallbacks
    /\ IF ~StateMatches(st) \/ err
       THEN UNCHANGED <<auth_code, auth_future>>
       ELSE /\ auth_code' = code
            /\ auth_future' = IF code # 0 /\ auth_future = "pending"
                              THEN "done" ELSE auth_future
    /\ cb_count' = cb_count + 1
    /\ last_cb' = [state |-> st, code |-> code, error |-> err,
                   matched |-> (st = auth_state),
                   status |-> CallbackStatus(st, code, err)]
    /\ good_codes' = IF st = auth_state /\ ~err THEN good_codes \cup {code}
                     ELSE good_codes
    /\ UNCHANGED <<auth_state, flow_pc, exchanged>>
    /\ UNCHANGED <<wsVars, alert_classes, queueVars, tokenVars, reconVars>>

\* the future is done: _get_auth_code returns and _get_new_token posts
\* self._auth_code to the token endpoint
PostCode ==
    /\ flow_pc = "waiting"
    /\ auth_future = "done"
    /\ exchanged' = exchanged \cup {auth_code}
    /\ flow_pc' = "posted"
    /\ UNCHANGED <<auth_state, auth_code, auth_future, good_codes, cb_count, last_cb>>
    /\ UNCHANGED <<wsVars, alert_classes, queueVars, tokenVars, reconVars>>

\* _token_request answers: with 200 the token is replaced and saved, else it
\* raises
TokenAnswer(ok) ==
    /\ flow_pc = "posted"
    /\ flow_pc' = "idle"
    /\ token' = IF ok THEN token + 1 ELSE token
    /\ saved_token' = IF ok THEN token + 1 ELSE saved_token
    /\ UNCHANGED <<refresh_event, token_running, task_pc, issues, nref, gt_overlap,
                   ran_since_wake, refresh_task, stop_calls, stop_error, last_tick, slept>>
    /\ UNCHANGED <<auth_state, auth_code, auth_future, exchanged, good_codes,
                   cb_count, last_cb>>
    /\ UNCHANGED <<wsVars, alert_classes, queueVars, reconVars>>

InitSpecOAuth ==
    /\ InitWs
    /\ max_reconnect = default_max_reconnect
    /\ alert_classes = NoRegistry
    /\ InitQueue
    /\ InitAuth
    /\ InitNoSubs

NextOAuth ==
    \/ StartFlow
    \/ \E st \in CallbackStates, code \in CallbackCodes, err \in BOOLEAN :
          Callback(st, code, err)
    \/ PostCode
    \/ \E ok \in BOOLEAN : TokenAnswer(ok)

SpecOAuth == InitSpecOAuth /\ [][NextOAuth]_vars

(***************************************************************************)
(* Claims about the queue.                                                 *)
(***************************************************************************)
Key2Lt(a, b) ==
    \/ a.priority < b.priority
    \/ a.priority = b.priority /\ a.timestamp < b.timestamp

Key3Le(a, b) ==
    \/ Key2Lt(a, b)
    \/ /\ a.priority = b.priority
       /\ a.timestamp = b.timestamp
       /\ a.message_id <= b.message_id

EarlyPairs ==
    {p \in (1..Len(got)) \X (1..Len(got)) :
        /\ p[1] < p[2]
        /\ got[p[1]].message_id \in early
        /\ got[p[2]].message_id \in early}

\* the queue a fresh process restores from the stored snapshot
Restored == load_state(storage_queue, <<>>, <<>>, next_uuid)[1]

SnapshotIds == {storage_queue[i].message_id : i \in 1..Len(storage_queue)}

C8_InFlightAlertInSnapshot ==
    (restarts > 0 /\ loop_pc = "new")
    => \A m \in put_ids \ processed : m \in SnapshotIds

GotIds == {got[i].message_id : i \in 1..Len(got)}

QueuedIds == {queue[i].message_id : i \in 1..Len(queue)}

\* C11: from the moment the loop finds the flag set until resume(), get()
\* returns nothing and every queued alert stays queued; and whenever get()
\* returns an alert, no alert left in the queue has a smaller
\* (priority, timestamp), so that the alerts held come out in priority order.
C11_PauseHoldsDispatch ==
    /\ [][observed_paused
            => /\ got' = got
               /\ QueuedIds \subseteq QueuedIds']_vars
    /\ [][got' # got
            => \A i \in 1..Len(queue') : ~Key2Lt(queue'[i], got'[Len(got')])]_vars

\* two alerts put while the dispatch was held came out after resume(), the
\* one of the smaller (priority, timestamp) first
C11_Witness ==
    /\ ~paused
    /\ \E i, j \in 1..Len(got) :
          /\ i < j
          /\ {got[i].message_id, got[j].message_id} \subseteq held
          /\ Key2Lt(got[i], got[j])

C13_ArchiveFailureStillDispatches ==
    last_call.store_raised
        => \/ last_call.message_id \in QueuedIds
           \/ process_started[last_call.message_id] >= 1

\* the rows of a table of the archive that carry a message id
RowsOf(table, message_id) ==
    IF table \in DOMAIN archive
    THEN {i \in 1..Len(archive[table]) : archive[table][i].message_id = message_id}
    ELSE {}

\* C15: a table of the archive never holds two rows with one message id, and
\* after a notification was archived its table holds the row of that write.
C15_ArchiveOneRowLastWrite ==
    /\ \A table \in DOMAIN archive, m \in ArchiveIds :
          Cardinality(RowsOf(table, m)) <= 1
    /\ (last_call.store_called /\ ~last_call.store_raised)
          => \E i \in RowsOf(channel_to_table(last_call.channel), last_call.message_id) :
                archive[channel_to_table(last_call.channel)][i] = last_call.row

\* one message id of one topic was archived and queued twice, the second time
\* with another timestamp and payload: one row, that of the second write
C15_Witness ==
    \E i, j \in 1..Len(id_map) :
        /\ i < j
        /\ j = Len(id_map)
        /\ id_map[i].item.message_id = id_map[j].item.message_id
        /\ id_map[i].item.channel = id_map[j].item.channel
        /\ id_map[i].item.timestamp # id_map[j].item.timestamp
        /\ last_call.message_id = id_map[j].item.message_id
        /\ last_call.channel = id_map[j].item.channel
        /\ last_call.dispatched
        /\ last_call.row.timestamp = id_map[j].item.timestamp
        /\ Cardinality(RowsOf(channel_to_table(last_call.channel), last_call.message_id)) = 1

\* C18 as stated: the alert of an unregistered topic has priority 4 and
\* queue_skip true, and nothing is archived for it.
C18_RegistryMissPriority4NoStore ==
    (last_call.message_id # 0 /\ ~last_call.registered)
        => /\ last_call.priority = 4
           /\ last_call.queue_skip
           /\ ~last_call.store_called

\* C18: the alert of an unregistered topic has priority 3 and queue_skip
\* true, its store() is called, and when that returns the row is in the
\* topic's table, the alert's process() is started and the queue is not
\* touched.
C18_RegistryMissGenericAlert ==
    /\ (last_call.message_id # 0 /\ ~last_call.registered)
          => /\ last_call.priority = 3
             /\ last_call.queue_skip
             /\ last_call.store_called
             /\ ~last_call.store_raised
                   => /\ last_call.dispatched
                      /\ process_started[last_call.message_id] >= 1
                      /\ RowsOf(channel_to_table(last_call.channel), last_call.message_id) # {}
    /\ \A i \in 1..Len(id_map) : id_map[i].item.channel \in DOMAIN alert_classes

\* a notification of an unregistered topic was archived and its process()
\* started
C18_Witness ==
    /\ last_call.message_id # 0
    /\ ~last_call.registered
    /\ last_call.dispatched
    /\ process_started[last_call.message_id] = 1
    /\ id_map = <<>>

\* C14: no call of stop() ends with the AttributeError of a missing task: a
\* second stop(), or a stop() when no _refresher task exists, returns.
C14_StopIdempotent ==
    stop_error # "AttributeError"

\* C17: once a validation answered 200 for a token with at most 3600 seconds
\* left, the _refresher has called _refresh in that round of its loop.
C17_PreemptiveRefresh ==
    (last_tick.ticked /\ last_tick.remaining <= refresh_margin)
        => nref[Refresher] > last_tick.nref

\* the validation answered 200 with exactly 3600 seconds left and the
\* _refresher is in _refresh
C17_Witness ==
    /\ last_tick.ticked
    /\ last_tick.remaining = refresh_margin
    /\ task_pc[Refresher] = "refresh_wait"
    /\ nref[Refresher] = last_tick.nref + 1

\* C19: right after the switch to a reconnect socket that delivered
\* session_welcome, the socket it replaced is closed, the session id is the
\* new one, and the ids seen before the switch (but for the oldest, which the
\* reconnect frame's own id may have evicted) are still in the seen cache.
C19_ReconnectHandOver ==
    (last_handover.new # 0 /\ Len(frames) = last_handover.at /\ connected)
        => /\ last_handover.old \notin open_sockets
           /\ socket = last_handover.new
           /\ session_id = last_handover.new
           /\ \A i \in 2..Len(last_handover.seen) :
                 last_handover.seen[i] \in Range(seen_messages)

ServerIds == {sub.id : sub \in server_subs}

\* C20: when a run of handle_session_welcome has ended without a failed
\* request, every listed subscription that was enabled and bound to the
\* session is still on the server and every other listed one is gone.
C20_ReconciliationPartition ==
    (recon_pc = "done" /\ ~recon_failed /\ changes = 0)
        => \A sub \in recon_listed :
              IF sub.status = "enabled" /\ sub.session = session_id
              THEN sub.id \in ServerIds
              ELSE sub.id \notin ServerIds

\* the listed subscriptions that are enabled and bound to the session
KeptOf(listed) == {sub \in listed : sub.status = "enabled" /\ sub.session = session_id}

\* C21: when a run of handle_session_welcome that listed no subscription both
\* enabled and bound to the session has ended without a failed request, it
\* has called createEventSub once for every channel.
C21_CreateWhenEmpty ==
    (recon_pc = "done" /\ ~recon_failed /\ creates # <<>> /\ KeptOf(recon_listed) = {})
        => creates[Len(creates)] = Len(Channels)

\* C22: a run of handle_session_welcome never ends on a failed createEventSub
\* with channels left that it did not try to subscribe to.
C22_CreateFailureIsolated ==
    recon_pc = "failed" => Len(recon_todo) <= 1

\* C23: after the first dial, run() goes on to dial only from a backoff sleep
\* (run_pc "backoff"): no two dials without a sleep between them.
C23_ReconnectBackoff ==
    [][(run_pc' = "dial" /\ run_pc # "dial" /\ dials >= 1) => run_pc = "backoff"]_vars

\* C26: the _refresher ends only when stop() is called: a validation that
\* answers neither 200 nor 401 is followed by a refresh and the loop goes on.
C26_ValidatorEndsOnlyOnStop ==
    task_pc[Refresher] \in {"dead", "cancelled"} => stop_calls >= 1

\* C27: between two consecutive calls of _refresh by the _refresher there is
\* a sleep of the loop period.
C27_SleepBetweenRefreshes ==
    [][(nref'[Refresher] > nref[Refresher] /\ nref[Refresher] >= 1) => slept]_vars

\* no token request, code flow or save is in progress
TokenIdle ==
    /\ \A t \in Tasks : task_pc[t] \notin {"refresh_wait", "reauth", "refresh_save"}
    /\ flow_pc = "idle"

\* C28: whenever no token operation is in progress, the token saved under
\* "twitch" is the token held in memory.
C28_SavedTokenIsToken ==
    (token # 0 /\ TokenIdle) => saved_token = token

\* C24: the session id is nil or the id the session_welcome of the socket in
\* use carried (a socket's session_welcome carries the socket's number).
C24_SessionIdOfSocket ==
    session_id # NoSession => session_id = socket

\* C25: when the socket handle_session_reconnect dials fails before its
\* session_welcome (dial error, read error, another first frame), the new
\* socket is closed, socket and session id stay, and _connected is cleared.
C25_ReconnectFailureFallback ==
    [][\A i \in DOMAIN hm_tasks :
          (/\ hm_tasks[i].outcome = "none"
           /\ hm_tasks'[i].outcome \in {"dial_error", "recv_error", "other_frame"})
             => /\ ReconnectSocket(i) \notin open_sockets'
                /\ socket' = socket
                /\ session_id' = session_id
                /\ ~connected']_vars

\* the steps of close() taken so far
Closed == Range(close_log)

\* C29: close() shuts the queue worker down before it stops the token
\* validator.
C29_WorkerBeforeValidator ==
    "validator" \in Closed => "worker" \in Closed

C36_OldSocketDeathIgnored ==
    [][(stale_recv # 0 /\ stale_recv \in open_sockets /\ stale_recv \notin open_sockets')
          => (connected' = connected /\ socket' = socket /\ session_id' = session_id)]_vars

\* close() has returned or raised
CloseEnded == "raised" \in Closed \/ Len(close_log) = Len(CloseSteps)

\* C39: when close() has ended, the token validator is stopped and the queue
\* worker is cancelled, whether or not a socket was connected by then.
C39_CloseCompletes ==
    CloseEnded => ("validator" \in Closed /\ "worker" \in Closed)

\* C37: every subscription a run of handle_session_welcome creates is bound
\* to the session id its session_welcome carried.
C37_CreatesCarryWelcomeId ==
    [][recon_pc = "create"
          => \A sub \in server_subs' \ server_subs : sub.session = recon_sid]_vars

\* C31: a callback that arrives when the authorization future is already done
\* changes neither the future nor the code that will be exchanged.
C31_DuplicateCallbackNoOp ==
    [][(cb_count' = cb_count + 1 /\ auth_future = "done")
          => (auth_future' = auth_future /\ auth_code' = auth_code)]_vars

\* a sequence without the first element equal to x
RemoveFirst(seq, x) ==
    IF \E i \in 1..Len(seq) : seq[i] = x
    THEN LET first == CHOOSE i \in 1..Len(seq) :
                          seq[i] = x /\ \A j \in 1..(i - 1) : seq[j] # x
         IN  SubSeq(seq, 1, first - 1) \o SubSeq(seq, first + 1, Len(seq))
    ELSE seq

\* C32: remove_by_id of a known id returns true and removes the one entry put
\* under that id, from the id map and from the heap, the other alerts keeping
\* their order of get(); of an unknown id it returns false and changes nothing.
C32_RemoveExactlyOne ==
    [][last_remove'.n = last_remove.n + 1 =>
         LET i == IdIndex(id_map, last_remove'.alert_id)
         IN  IF i = 0
             THEN /\ ~last_remove'.returned
                  /\ queue' = queue
                  /\ id_map' = id_map
             ELSE /\ last_remove'.returned
                  /\ id_map' = DelAt(id_map, i)
                  /\ PopAll(queue') = RemoveFirst(PopAll(queue), id_map[i].item)]_vars

\* the alerts of the heap and of the id map, with their multiplicity
HeapBag == [a \in Range(queue) |-> Cardinality({i \in 1..Len(queue) : queue[i] = a})]

MapBag ==
    [a \in {id_map[i].item : i \in 1..Len(id_map)} |->
        Cardinality({i \in 1..Len(id_map) : id_map[i].item = a})]

\* C40: the id map and the heap hold the same alerts, equal ones included.
C40_MapHeapAgree ==
    Len(id_map) = Len(queue) /\ MapBag = HeapBag

\* C38: after pause(), at most one more queued alert has its process()
\* started before resume(): the one the loop was already waiting for in get().
C38_PauseOvershootBounded ==
    paused => overshoot <= 1

\* the loop was waiting in get() when pause() was called, and the alert put
\* afterwards was handed to process()
C38_Witness ==
    /\ paused
    /\ overshoot = 1
    /\ loop_pc = "processing"

\* a task is inside _refresh: the event is cleared
Refreshing == \E t \in Tasks : task_pc[t] \in {"refresh_wait", "reauth", "refresh_save"}

\* C35: every refresh that begins is followed by the event being set again.
C35_GateReopened ==
    Refreshing ~> refresh_event

\* C33: every alert put into the queue of a running handler that is not
\* paused is eventually handed to process(), and only once.
C33_EventualDispatch ==
    \A m \in WorkerIds : (m \in put_ids) ~> (process_started[m] = 1)

\* no put() and no get() is between its first statement and its return
QueueQuiet == writes = {} /\ loop_pc # "saving"

\* C34: whenever no call of the queue is in progress, the snapshot saved last
\* holds the alerts of the id map.
C34_SnapshotIsIdMap ==
    (loop_pc # "new" /\ QueueQuiet) => storage_queue = SavedState(id_map)

(***************************************************************************)
(* Claims about the session.                                               *)
(***************************************************************************)
\* the last frame before frame j that carried the same id, or 0
PrevObserved(j) ==
    LET before == {i \in 1..(j - 1) : frames[i] = frames[j]}
    IN  IF before = {} THEN 0 ELSE Max(before)

\* the last frame before frame j that carried the same id and was not dropped
PrevAccepted(j) ==
    LET before == {i \in 1..(j - 1) : frames[i] = frames[j] /\ accepted[i]}
    IN  IF before = {} THEN 0 ELSE Max(before)

\* the other ids observed between frames i and j
Between(i, j) == {frames[k] : k \in (i + 1)..(j - 1)} \ {frames[j]}

FramesOf(id) == {j \in 1..Len(frames) : frames[j] = id}

RECURSIVE AcceptedUpTo(_)
AcceptedUpTo(n) ==
    IF n = 0 THEN <<>>
    ELSE IF accepted[n] THEN Append(AcceptedUpTo(n - 1), frames[n])
         ELSE AcceptedUpTo(n - 1)

\* C16: the seen cache never holds more than 15 ids; an id inserted into a
\* cache of 15 takes the place of the oldest id and of no other, and an id
\* inserted into a smaller cache evicts nothing.
C16_SeenCacheBound ==
    [][/\ Len(seen_messages) <= max_size
       /\ Len(seen_messages') <= max_size
       /\ seen_messages' # seen_messages
            => LET id == frames'[Len(frames')]
               IN  /\ id \notin Range(seen_messages)
                   /\ seen_messages' =
                         IF Len(seen_messages) = max_size
                         THEN Append(Tail(seen_messages), id)
                         ELSE Append(seen_messages, id)]_vars

\* sixteen distinct ids were inserted: the cache holds the last fifteen
C16_Witness ==
    LET acc == AcceptedUpTo(Len(frames))
    IN  /\ Len(acc) = max_size + 1
        /\ Len(seen_messages) = max_size
        /\ acc[1] \notin Range(seen_messages)
        /\ seen_messages = Tail(acc)

\* C9 (as claimed): once the consecutive failed connections exceed
\* max_reconnect, run() has ended and dials no more.
C9_ReconnectBudget ==
    fails > max_reconnect => run_pc \notin {"dial", "recv"}

(***************************************************************************)
(* Claims about the token and the authenticated requests.                  *)
(***************************************************************************)
\* C3 (as claimed): at most one call of TokenHandler._refresh is in flight at
\* any time, whatever the interleaving of the _refresher and the requests
\* that receive 401.
C3_SingleFlightRefresh ==
    Cardinality({t \in Tasks : InRefresh(t)}) <= 1

\* C4 (as claimed): no get_token() returns while a refresh is in progress.
C4_GetTokenWaitsForRefresh == ~gt_overlap

\* C10 (as claimed): one call of _request refreshes the token at most once and
\* sends the request at most twice; a second 401 ends the call.
C10_OneRefreshOneRetry ==
    \A t \in Requests : nref[t] <= 1 /\ issues[t] <= 2

(***************************************************************************)
(* Claims about the reconciliation.                                        *)
(***************************************************************************)
\* C5 (as claimed): when handle_session_welcome has run twice for one session
\* id against one state of the server (no request failed, the server changed
\* nothing in between), the second run has made no createEventSub call and
\* the server holds the same subscriptions after it as after the first run.
C5_ReconciliationIdempotent ==
    (Len(finals) >= 2 /\ ~recon_failed)
    => creates[2] = 0 /\ finals[2] = finals[1]

(***************************************************************************)
(* Claims about the authorization code flow.                               *)
(***************************************************************************)
\* C6: a callback whose state differs from self._state is answered with 400
\* and changes neither the stored code nor the future, and every code posted
\* to the token endpoint was carried by a callback with the current state and
\* no error.
C6_StateMismatchNotExchanged ==
    /\ [](exchanged \subseteq good_codes)
    /\ [][(cb_count' # cb_count /\ last_cb'.state # auth_state)
            => /\ auth_code' = auth_code
               /\ auth_future' = auth_future
               /\ exchanged' = exchanged
               /\ last_cb'.status = 400]_vars

\* while a flow waits for its code, a callback with another state and a code
\* was answered with 400 and the flow still waits
C6_Witness ==
    /\ flow_pc = "waiting"
    /\ auth_future = "pending"
    /\ cb_count > 0
    /\ ~last_cb.matched
    /\ last_cb.code # 0
    /\ ~last_cb.error
    /\ last_cb.status = 400
    /\ auth_code # last_cb.code

====
